---- MODULE Spec2Model ----
(***************************************************************************)
(* State-machine model of the inventory/ingredient data-access layer       *)
(* (SqliteManager, src/src/asqlite_class.py) over the relational schema    *)
(* of src/src/database_schemas.py.                                         *)
(*                                                                         *)
(* Every manager method is a coroutine on one shared connection and one    *)
(* shared cursor (self.cur).  A step of a coroutine is one awaited cursor  *)
(* operation (execute / fetchone / commit) together with the synchronous   *)
(* code that follows it up to the next await.  Each step is a function     *)
(* from the world (connection, tables, cursor, clock) and the coroutine's  *)
(* frame to the world and the frame after it: a caller that awaits every   *)
(* call runs the steps of one call back to back (Spec), concurrent tasks   *)
(* interleave them (the racing specifications).                            *)
(***************************************************************************)
EXTENDS Integers, Sequences, FiniteSets, TLC

VARIABLES
    conn,        \* self.conn is not None
    curSet,      \* self.cur has been assigned
    tables,      \* how many of the six schema statements have been applied
    connected,   \* history: the last connect() returned without raising
    users,       \* rows of table users
    ingredients, \* rows of table ingredients (the catalog)
    inventory,   \* rows of table inventory
    seq,         \* sqlite_sequence: the AUTOINCREMENT counter of each table
    cursor,      \* the state of the shared cursor self.cur
    now,         \* CURRENT_TIMESTAMP, in whole seconds
    writes,      \* history: how many statements have changed the inventory
    task         \* the coroutine of each task: position, arguments, locals

vars == <<conn, curSet, tables, connected, users, ingredients, inventory,
          seq, cursor, now, writes, task>>

\* everything but the tasks, as one value
World ==
    [curSet |-> curSet, tables |-> tables, users |-> users,
     ingredients |-> ingredients, inventory |-> inventory, seq |-> seq,
     cursor |-> cursor, now |-> now, writes |-> writes]

\* the next state holds the world w
Becomes(w) ==
    /\ curSet' = w.curSet
    /\ tables' = w.tables
    /\ users' = w.users
    /\ ingredients' = w.ingredients
    /\ inventory' = w.inventory
    /\ seq' = w.seq
    /\ cursor' = w.cursor
    /\ now' = w.now
    /\ writes' = w.writes

-----------------------------------------------------------------------------
(* Bounds of the model *)

\* CURRENT_TIMESTAMP takes the values 0..MaxClock
MaxClock == 1
\* at most MaxWrites statements ever change the inventory
MaxWrites == 3

Tasks == {1, 2}
UserIds == {1, 2}
IngredientIds == {1, 2}
TestEmail == "test@example.com"
Emails == {TestEmail, "other@example.com"}
Names == {"flour", "milk"}

-----------------------------------------------------------------------------
(* Python / SQL values.  A value that crosses the cursor is tagged with    *)
(* its type, so that a row read by the wrong caller stays a value.         *)

None == <<"none">>
PInt(n) == <<"int", n>>
PReal(x) == <<"real", x>>
PStr(s) == <<"str", s>>
\* a datetime.date object
PDate(d) == <<"date", d>>
\* the text CURRENT_TIMESTAMP yields
PStamp(n) == <<"stamp", n>>
\* a datetime.datetime object
PDatetime(n) == <<"datetime", n>>

Tag(v) == v[1]
Val(v) == v[2]

\* Python truthiness, as used by `if table`, `if not last_row_id`
Truthy(v) ==
    CASE Tag(v) = "none" -> FALSE
      [] Tag(v) = "bool" -> Val(v)
      [] Tag(v) = "int" -> Val(v) # 0
      [] Tag(v) = "real" -> Val(v) # 0
      [] Tag(v) = "str" -> Val(v) # ""
      [] Tag(v) = "row" -> Len(Val(v)) > 0
      [] OTHER -> TRUE

\* a fetched row is a tuple of column values
PRow(cols) == <<"row", cols>>

Categories == {"staple", "dairy", "protein", "condiment", "produce", "others"}
MeasurementUnits == {"grams", "millilitres", "pieces"}
Dates == {"2025-01-01", "2026-06-30"}

\* IngredientInsertion objects the callers pass
IngredientInsertions ==
    { [name |-> "flour", category |-> "staple", unit_type |-> "grams"],
      [name |-> "milk", category |-> "dairy", unit_type |-> "millilitres"] }

\* the InventoryInsertion object the callers pass with an ingredient id
\* (quantity, minimum_threshold >= 0)
InventoryInsertion(ingredient_id) ==
    IF ingredient_id = 1
    THEN [quantity |-> PReal(5), minimum_threshold |-> PReal(1),
          expiration_date |-> PDate("2025-01-01")]
    ELSE [quantity |-> PReal(0), minimum_threshold |-> PReal(0),
          expiration_date |-> None]

\* the `updates` mappings the callers pass: a key may be missing (Absent)
\* and a value may be None
Absent == <<"absent">>
UpdateKeys == {"quantity", "minimum_threshold", "expiration_date"}
Updates(q, t, d) == [quantity |-> q, minimum_threshold |-> t, expiration_date |-> d]
UpdateMappings ==
    { Updates(Absent, Absent, Absent),
      Updates(None, None, None),
      Updates(PReal(9), None, None),
      Updates(Absent, PReal(2), PDate("2026-06-30")),
      Updates(PReal(9), PReal(2), PDate("2026-06-30")) }

-----------------------------------------------------------------------------
(* Helpers *)

\* the rows of a set as a sequence, in the order of their id column
RECURSIVE RowsById(_)
RowsById(S) ==
    IF S = {} THEN <<>>
    ELSE LET r == CHOOSE x \in S : \A y \in S : x.id <= y.id
         IN <<r>> \o RowsById(S \ {r})

\* the result set of a SELECT: S holds, for each row the statement yields, its
\* columns (row) and the rowid it is read at (id)
ResultRows(S) ==
    LET s == RowsById(S)
    IN IF S = {} THEN <<>> ELSE [i \in 1..Len(s) |-> s[i].row]

-----------------------------------------------------------------------------
(* The schema: what the storage engine enforces on a write to the world w *)

\* ingredients.name TEXT UNIQUE
UniqueIngredientName(w, name) ==
    ~ \E g \in w.ingredients : PStr(g.name) = name

\* a table inventory without UNIQUE(user_id, ingredient_id)
UniqueInventoryPairDropped(w, user_id, ingredient_id) ==
    TRUE

\* inventory: UNIQUE(user_id, ingredient_id)
UniqueInventoryPair(w, user_id, ingredient_id) ==
    ~ \E r \in w.inventory :
         PInt(r.user_id) = user_id /\ PInt(r.ingredient_id) = ingredient_id

\* inventory: FOREIGN KEY (user_id) REFERENCES users(id)
ForeignKeyUser(w, user_id) ==
    \E u \in w.users : PInt(u.id) = user_id

\* a table inventory without the foreign key on ingredient_id
ForeignKeyIngredientDropped(w, ingredient_id) ==
    TRUE

\* inventory: FOREIGN KEY (ingredient_id) REFERENCES ingredients(id)
ForeignKeyIngredient(w, ingredient_id) ==
    \E g \in w.ingredients : PInt(g.id) = ingredient_id

\* users.email TEXT UNIQUE
UniqueEmail(w, email) ==
    ~ \E u \in w.users : PStr(u.email) = email

\* how sqlite3 binds a Python value to a statement parameter: a date object
\* goes through the default adapter and is stored as its ISO text
Adapt(v) ==
    IF Tag(v) = "date" THEN PStr(Val(v)) ELSE v

-----------------------------------------------------------------------------
(* The shared cursor c *)

\* a cursor as conn.cursor() returns it
NewCursor == [rows |-> <<>>, lastrowid |-> 0, rowcount |-> -1]

\* the cursor after executing a SELECT that yields `rows`
AfterSelect(c, rows) == [c EXCEPT !.rows = rows, !.rowcount = -1]

\* the cursor after executing a DELETE or an UPDATE that changed n rows
AfterWrite(c, n) == [c EXCEPT !.rows = <<>>, !.rowcount = n]

\* the cursor after a successful INSERT of the row with rowid id
AfterInsert(c, id) == [rows |-> <<>>, lastrowid |-> id, rowcount |-> 1]

\* the cursor after an INSERT OR IGNORE that stored nothing
AfterIgnore(c) == [c EXCEPT !.rows = <<>>, !.rowcount = 0]

\* the cursor after a statement that raised
AfterError(c) == [c EXCEPT !.rows = <<>>, !.rowcount = -1]

\* cursor.fetchone(): the next row of whatever statement ran last, or None
FetchOne(c) == IF c.rows = <<>> THEN None ELSE Head(c.rows)
AfterFetchOne(c) ==
    IF c.rows = <<>> THEN c ELSE [c EXCEPT !.rows = Tail(@)]

\* cursor.fetchall()
FetchAll(c) == c.rows
AfterFetchAll(c) == [c EXCEPT !.rows = <<>>]

-----------------------------------------------------------------------------
(* The SELECT statements of the manager, each as the result set it yields  *)
(* in the world w                                                          *)

\* inventory t1 INNER JOIN ingredients t2 ON t1.ingredient_id = t2.id
\* (also ingredients RIGHT JOIN inventory under a WHERE on the ingredient,
\* which drops the rows the outer join pads with NULL)
Joined(w) ==
    { [id |-> r.id, inv |-> r, ing |-> g] : <<r, g>> \in
        { p \in w.inventory \X w.ingredients : p[1].ingredient_id = p[2].id } }

SelectQuantityByName(w, user_id, ingredient_name) ==
    ResultRows({ [id |-> j.id, row |-> PRow(<<PReal(j.inv.quantity)>>)] :
        j \in { x \in Joined(w) : PInt(x.inv.user_id) = user_id
                               /\ PStr(x.ing.name) = ingredient_name } })

\* the quantity query without its condition on the user
SelectQuantityByIdOfAnyUser(w, user_id, ingredient_id) ==
    ResultRows({ [id |-> r.id, row |-> PRow(<<PReal(r.quantity)>>)] :
        r \in { x \in w.inventory : PInt(x.ingredient_id) = ingredient_id } })

SelectQuantityById(w, user_id, ingredient_id) ==
    ResultRows({ [id |-> r.id, row |-> PRow(<<PReal(r.quantity)>>)] :
        r \in { x \in w.inventory : PInt(x.user_id) = user_id
                                  /\ PInt(x.ingredient_id) = ingredient_id } })

SelectUnitByName(w, ingredient_name) ==
    ResultRows({ [id |-> g.id, row |-> PRow(<<PStr(g.unit_type)>>)] :
        g \in { x \in w.ingredients : PStr(x.name) = ingredient_name } })

SelectUnitById(w, ingredient_id) ==
    ResultRows({ [id |-> g.id, row |-> PRow(<<PStr(g.unit_type)>>)] :
        g \in { x \in w.ingredients : PInt(x.id) = ingredient_id } })

\* the columns of the info queries with quantity and minimum_threshold swapped
InfoColumnsSwapped(j) ==
    PRow(<<PStr(j.ing.name), PStr(j.ing.category), PStr(j.ing.unit_type),
           PReal(j.inv.minimum_threshold), PReal(j.inv.quantity),
           j.inv.expiration_date>>)

\* SELECT t2.name, t2.category, t2.unit_type, t1.quantity,
\*        t1.minimum_threshold, t1.expiration_date
InfoColumns(j) ==
    PRow(<<PStr(j.ing.name), PStr(j.ing.category), PStr(j.ing.unit_type),
           PReal(j.inv.quantity), PReal(j.inv.minimum_threshold),
           j.inv.expiration_date>>)

\* the by-name info query without its condition on the user
SelectInfoByNameOfAnyUser(w, ingredient_name, user_id) ==
    ResultRows({ [id |-> j.id, row |-> InfoColumns(j)] :
        j \in { x \in Joined(w) : PStr(x.ing.name) = ingredient_name } })

SelectInfoByName(w, ingredient_name, user_id) ==
    ResultRows({ [id |-> j.id, row |-> InfoColumns(j)] :
        j \in { x \in Joined(w) : PStr(x.ing.name) = ingredient_name
                               /\ PInt(x.inv.user_id) = user_id } })

SelectInfoById(w, ingredient_id, user_id) ==
    ResultRows({ [id |-> j.id, row |-> InfoColumns(j)] :
        j \in { x \in Joined(w) : PInt(x.ing.id) = ingredient_id
                               /\ PInt(x.inv.user_id) = user_id } })

SelectIdByName(w, ingredient_name) ==
    ResultRows({ [id |-> g.id, row |-> PRow(<<PInt(g.id)>>)] :
        g \in { x \in w.ingredients : PStr(x.name) = ingredient_name } })

\* SELECT COUNT(*) always yields one row
CountRow(S) == <<PRow(<<PInt(Cardinality(S))>>)>>

\* the existence check by name that leaves out the user
CountInventoryByNameOfAnyUser(w, user_id, ingredient_name) ==
    CountRow({ x \in Joined(w) : PStr(x.ing.name) = ingredient_name })

CountInventoryByName(w, user_id, ingredient_name) ==
    CountRow({ x \in Joined(w) : PInt(x.inv.user_id) = user_id
                              /\ PStr(x.ing.name) = ingredient_name })

\* the existence check of the inventory that never finds a row
CountInventoryByIdBlind(w, user_id, ingredient_id) ==
    CountRow({})

CountInventoryById(w, user_id, ingredient_id) ==
    CountRow({ x \in Joined(w) : PInt(x.inv.user_id) = user_id
                              /\ PInt(x.ing.id) = ingredient_id })

\* the existence check of the catalog that never finds a row
CountIngredientsByNameBlind(w, ingredient_name) ==
    CountRow({})

CountIngredientsByName(w, ingredient_name) ==
    CountRow({ x \in w.ingredients : PStr(x.name) = ingredient_name })

CountIngredientsById(w, ingredient_id) ==
    CountRow({ x \in w.ingredients : PInt(x.id) = ingredient_id })

\* created_updated_timings_query of add_ingredient_into_inventory
SelectTimings(w, last_row_id) ==
    ResultRows({ [id |-> r.id,
                  row |-> PRow(<<PStamp(r.created_at), PStamp(r.updated_at)>>)] :
        r \in { x \in w.inventory : PInt(x.id) = last_row_id } })

\* the ingredient_info_query without its WHERE clause
SelectIngredientInfoOfAny(w, ingredient_id) ==
    ResultRows({ [id |-> g.id,
                  row |-> PRow(<<PStr(g.name), PStr(g.category), PStr(g.unit_type)>>)] :
        g \in w.ingredients })

\* ingredient_info_query of add_ingredient_into_inventory
SelectIngredientInfo(w, ingredient_id) ==
    ResultRows({ [id |-> g.id,
                  row |-> PRow(<<PStr(g.name), PStr(g.category), PStr(g.unit_type)>>)] :
        g \in { x \in w.ingredients : PInt(x.id) = ingredient_id } })

\* updated_info_query of update_ingredient_in_inventory_by_id
UpdatedColumnsById(j) ==
    PRow(<<PStr(j.ing.name), PStr(j.ing.category), PStr(j.ing.unit_type),
           PInt(j.inv.id), PReal(j.inv.quantity), PReal(j.inv.minimum_threshold),
           j.inv.expiration_date, PStamp(j.inv.created_at),
           PStamp(j.inv.updated_at)>>)

SelectUpdatedById(w, ingredient_id, user_id) ==
    ResultRows({ [id |-> j.id, row |-> UpdatedColumnsById(j)] :
        j \in { x \in Joined(w) : PInt(x.ing.id) = ingredient_id
                               /\ PInt(x.inv.user_id) = user_id } })

\* updated_info_query of update_ingredient_in_inventory_by_name, and the
\* query of get_all_ingredients_in_inventory: the same ten columns
FullColumns(j) ==
    PRow(<<PInt(j.ing.id), PStr(j.ing.name), PStr(j.ing.category),
           PStr(j.ing.unit_type), PInt(j.inv.id), PReal(j.inv.quantity),
           PReal(j.inv.minimum_threshold), j.inv.expiration_date,
           PStamp(j.inv.created_at), PStamp(j.inv.updated_at)>>)

SelectUpdatedByName(w, ingredient_name, user_id) ==
    ResultRows({ [id |-> j.id, row |-> FullColumns(j)] :
        j \in { x \in Joined(w) : PStr(x.ing.name) = ingredient_name
                               /\ PInt(x.inv.user_id) = user_id } })

SelectAllInInventory(w, user_id) ==
    ResultRows({ [id |-> j.id, row |-> FullColumns(j)] :
        j \in { x \in Joined(w) : PInt(x.inv.user_id) = user_id } })

\* get_query of create_test_user
SelectUserId(w, email) ==
    ResultRows({ [id |-> u.id, row |-> PRow(<<PInt(u.id)>>)] :
        u \in { x \in w.users : PStr(x.email) = email } })

-----------------------------------------------------------------------------
(* How a call ends, and the domain records (pydantic models) it may build *)

Return(v) == [kind |-> "return", value |-> v]
Raise(e) == [kind |-> "raise", error |-> e]
Pending == [kind |-> "pending"]

PBool(b) == <<"bool", b>>
\* an instance of a pydantic model, and a Python list
PObject(class, fields) == <<class, fields>>
PList(items) == <<"list", items>>

\* the columns of a fetched row; None has none
Columns(table) == IF Tag(table) = "row" THEN Val(table) ELSE <<>>

\* name: str = Field(..., min_length=1, max_length=100)
ValidName(v) == Tag(v) = "str" /\ Val(v) # ""
\* category: Category
ValidCategory(v) == Tag(v) = "str" /\ Val(v) \in Categories
\* unit_type: MeasurementUnit
ValidUnit(v) == Tag(v) = "str" /\ Val(v) \in MeasurementUnits
\* quantity, minimum_threshold: float = Field(..., ge=0)
ValidAmount(v) == Tag(v) \in {"real", "int"} /\ Val(v) >= 0
\* expiration_date: date | None, an ISO text is parsed to a date
ValidDate(v) ==
    \/ Tag(v) \in {"none", "date"}
    \/ Tag(v) = "str" /\ Val(v) \in Dates
ToDate(v) == IF Tag(v) = "str" THEN PDate(Val(v)) ELSE v
\* ingredient_id, inventory_id, user_id: int
ValidInt(v) == Tag(v) \in {"int", "real"}
\* created_at, updated_at: datetime, the timestamp text is parsed
ValidDatetime(v) == Tag(v) \in {"stamp", "datetime"}
ToDatetime(v) == IF Tag(v) = "stamp" THEN PDatetime(Val(v)) ELSE v

\* Ingredient(name=..., category=..., unit_type=..., quantity=...,
\*            minimum_threshold=..., expiration_date=...)
Ingredient(name, category, unit_type, quantity, minimum_threshold, expiration_date) ==
    IF /\ ValidName(name) /\ ValidCategory(category) /\ ValidUnit(unit_type)
       /\ ValidAmount(quantity) /\ ValidAmount(minimum_threshold)
       /\ ValidDate(expiration_date)
    THEN Return(PObject("Ingredient",
                [name |-> Val(name), category |-> Val(category),
                 unit_type |-> Val(unit_type),
                 quantity |-> PReal(Val(quantity)),
                 minimum_threshold |-> PReal(Val(minimum_threshold)),
                 expiration_date |-> ToDate(expiration_date)]))
    ELSE Raise("ValidationError")

\* IngredientFullResponse(ingredient_id=..., inventory_id=..., user_id=..., ...)
IngredientFullResponse(ingredient_id, inventory_id, user_id, created_at, updated_at, name, category, unit_type, quantity, minimum_threshold, expiration_date) ==
    IF /\ ValidInt(ingredient_id) /\ ValidInt(inventory_id) /\ ValidInt(user_id)
       /\ ValidDatetime(created_at) /\ ValidDatetime(updated_at)
       /\ ValidName(name) /\ ValidCategory(category) /\ ValidUnit(unit_type)
       /\ ValidAmount(quantity) /\ ValidAmount(minimum_threshold)
       /\ ValidDate(expiration_date)
    THEN Return(PObject("IngredientFullResponse",
                [ingredient_id |-> Val(ingredient_id),
                 inventory_id |-> Val(inventory_id),
                 user_id |-> Val(user_id),
                 created_at |-> ToDatetime(created_at),
                 updated_at |-> ToDatetime(updated_at),
                 name |-> Val(name), category |-> Val(category),
                 unit_type |-> Val(unit_type),
                 quantity |-> PReal(Val(quantity)),
                 minimum_threshold |-> PReal(Val(minimum_threshold)),
                 expiration_date |-> ToDate(expiration_date)]))
    ELSE Raise("ValidationError")

-----------------------------------------------------------------------------
(* The read-only methods: what each makes of the row it fetched *)

\* return table[0] if table else 0.0
QuantityResult(table) ==
    IF Truthy(table) THEN Return(Columns(table)[1]) ELSE Return(PReal(0))

\* if not table: raise IngredientNotFoundError; return table[0]
UnitByNameResult(table) ==
    IF ~Truthy(table) THEN Raise("IngredientNotFoundError")
    ELSE Return(Columns(table)[1])

\* unit_type = table[0]; if not unit_type: raise IngredientNotFoundError
UnitByIdResult(table) ==
    IF Tag(table) = "none" THEN Raise("TypeError")
    ELSE IF ~Truthy(Columns(table)[1]) THEN Raise("IngredientNotFoundError")
    ELSE Return(Columns(table)[1])

\* if table: name, category, ... = table; return Ingredient(...) else None
InfoResult(table) ==
    IF ~Truthy(table) THEN Return(None)
    ELSE IF Len(Columns(table)) # 6 THEN Raise("ValueError")
    ELSE LET c == Columns(table)
         IN Ingredient(c[1], c[2], c[3], c[4], c[5], c[6])

\* return table[0] if table else None
IdByNameResultOrNone(table) ==
    IF ~Truthy(table) THEN Return(None) ELSE Return(Columns(table)[1])

\* if not table: raise IngredientNotFoundError; return table[0]
IdByNameResult(table) ==
    IF ~Truthy(table) THEN Raise("IngredientNotFoundError")
    ELSE Return(Columns(table)[1])

\* an existence check that always answers true
ExistsResultAlways(exists) ==
    Return(PBool(TRUE))

\* return exists[0] > 0
ExistsResult(exists) ==
    IF Tag(exists) = "none" THEN Raise("TypeError")
    ELSE LET c == Columns(exists)[1]
         IN IF Tag(c) \in {"int", "real"} THEN Return(PBool(Val(c) > 0))
            ELSE Raise("TypeError")

\* for row in rows: ingredients.append(IngredientFullResponse(...))
RECURSIVE AllResult(_, _)
AllResult(rows, user_id) ==
    IF rows = <<>> THEN Return(PList(<<>>))
    ELSE IF Len(Columns(Head(rows))) # 10 THEN Raise("ValueError")
    ELSE LET c == Columns(Head(rows))
             first == IngredientFullResponse(c[1], c[5], user_id, c[9], c[10],
                                             c[2], c[3], c[4], c[6], c[7], c[8])
             rest == AllResult(Tail(rows), user_id)
         IN IF first.kind = "raise" THEN first
            ELSE IF rest.kind = "raise" THEN rest
            ELSE Return(PList(<<first.value>> \o Val(rest.value)))

\* return result[0] if result else None
UserIdResult(result) ==
    IF Truthy(result) THEN Return(Columns(result)[1]) ELSE Return(None)

-----------------------------------------------------------------------------
(* Calls: the coroutines callers run against the one manager *)

\* the methods that only read
LookupMethods ==
    { "get_ingredient_quantity_by_name", "get_ingredient_quantity_by_id",
      "get_ingredient_measurement_unit_by_name",
      "get_ingredient_measurement_unit_by_id",
      "get_ingredient_info_by_name", "get_ingredient_info_by_id",
      "get_ingredient_id_by_name",
      "ingredient_exists_in_inventory_by_name",
      "ingredient_exists_in_inventory_by_id",
      "ingredient_exists_in_ingredients_by_name",
      "ingredient_exists_in_ingredients_by_id",
      "get_all_ingredients_in_inventory" }

DeleteMethods ==
    {"delete_ingredient_from_inventory_by_id", "delete_ingredient_from_inventory_by_name"}
UpdateMethods ==
    {"update_ingredient_in_inventory_by_id", "update_ingredient_in_inventory_by_name"}

\* the methods that write to the inventory table
InventoryWriters ==
    {"add_ingredient_into_inventory"} \cup DeleteMethods \cup UpdateMethods

ByName(op) ==
    op \in { "get_ingredient_quantity_by_name",
             "get_ingredient_measurement_unit_by_name",
             "get_ingredient_info_by_name", "get_ingredient_id_by_name",
             "ingredient_exists_in_inventory_by_name",
             "ingredient_exists_in_ingredients_by_name",
             "delete_ingredient_from_inventory_by_name",
             "update_ingredient_in_inventory_by_name" }

\* the methods that take no user_id: they look at the catalog alone
CatalogOnly(op) ==
    op \in { "get_ingredient_measurement_unit_by_name",
             "get_ingredient_measurement_unit_by_id",
             "get_ingredient_id_by_name",
             "ingredient_exists_in_ingredients_by_name",
             "ingredient_exists_in_ingredients_by_id",
             "add_ingredient_to_ingredients" }

NameArgs == { PStr(n) : n \in Names }
IdArgs == { PInt(i) : i \in IngredientIds }
UserArgs == { PInt(u) : u \in UserIds }

\* the arguments of a call: the ingredient it names (a name or an id), the
\* user, and the insertion, the updates or the email it carries
Args(ingredient, user_id, data) ==
    [ingredient |-> ingredient, user_id |-> user_id, data |-> data]

\* a call: the method and its arguments
Invocation(op, args) == [op |-> op, args |-> args]

LookupArgs(op) ==
    IF op = "get_all_ingredients_in_inventory"
    THEN { Args(None, u, None) : u \in UserArgs }
    ELSE { Args(i, u, None) :
             i \in (IF ByName(op) THEN NameArgs ELSE IdArgs),
             u \in (IF CatalogOnly(op) THEN {None} ELSE UserArgs) }

LookupCalls ==
    UNION { { Invocation(op, a) : a \in LookupArgs(op) } : op \in LookupMethods }

AddIngredientCalls ==
    { Invocation("add_ingredient_to_ingredients", Args(PStr(g.name), None, g)) :
        g \in IngredientInsertions }

AddInventoryCalls ==
    { Invocation("add_ingredient_into_inventory",
                 Args(i, u, InventoryInsertion(Val(i)))) :
        i \in IdArgs, u \in UserArgs }

DeleteCalls ==
    UNION { { Invocation(op, Args(i, u, None)) :
                i \in (IF ByName(op) THEN NameArgs ELSE IdArgs), u \in UserArgs } :
            op \in DeleteMethods }

UpdateCalls ==
    UNION { { Invocation(op, Args(i, u, updates)) :
                i \in (IF ByName(op) THEN NameArgs ELSE IdArgs), u \in UserArgs,
                updates \in UpdateMappings } :
            op \in UpdateMethods }

CreateTestUserCalls ==
    { Invocation("create_test_user", Args(None, None, PStr(e))) : e \in Emails }

\* the locals of a coroutine that outlive an await
NoLocals == [last_row_id |-> None, timings |-> None]

\* the tables as a call finds them (history, for the properties that
\* compare the state before and after a call)
Snapshot(w) ==
    [users |-> w.users, ingredients |-> w.ingredients, inventory |-> w.inventory]

\* the frame of a task that is not in a call.  Besides the coroutine's
\* position, arguments and locals a frame keeps history: the tables as the
\* call found them (pre), whether it issued a statement that writes (wrote),
\* how many rows its DELETE or UPDATE changed (affected) and how many rows
\* the read-back query of an update yielded (found), -1 before the statement,
\* and the rowid its INSERT INTO inventory stored (stored), 0 before it
Idle ==
    [pc |-> "idle", op |-> "", args |-> Args(None, None, None), loc |-> NoLocals,
     out |-> Pending, pre |-> [users |-> {}, ingredients |-> {}, inventory |-> {}],
     wrote |-> FALSE, affected |-> -1, found |-> -1, stored |-> 0]

\* the frame of a new call, about to run its first statement
Begin(w, c) ==
    [pc |-> "call", op |-> c.op, args |-> c.args, loc |-> NoLocals, out |-> Pending,
     pre |-> Snapshot(w), wrote |-> FALSE, affected |-> -1, found |-> -1,
     stored |-> 0]

\* the call ends with outcome `out`
Ended(f, out) == [f EXCEPT !.pc = "done", !.out = out]

\* a step of a coroutine yields the world and the frame after it
To(w, f) == [w |-> w, f |-> f]

\* the schema statements, in the order connect() applies them
SchemaOrder ==
    <<"users", "ingredients", "inventory", "conversions", "recipes",
      "recipe_ingredients">>

\* the number of schema statements a method's statements rely on
TablesNeeded(op) ==
    IF op = "create_test_user" THEN 1 ELSE IF CatalogOnly(op) THEN 2 ELSE 3

\* what self.cur.execute raises before any statement runs: self.cur is only
\* assigned by connect(), and a table connect() never created does not exist
ExecuteError(w, op) ==
    IF ~w.curSet THEN "AttributeError"
    ELSE IF w.tables < TablesNeeded(op) THEN "OperationalError"
    ELSE ""

-----------------------------------------------------------------------------
(* The read-only methods: execute, then fetch *)

LookupQuery(w, op, a) ==
    CASE op = "get_ingredient_quantity_by_name" ->
            SelectQuantityByName(w, a.user_id, a.ingredient)
      [] op = "get_ingredient_quantity_by_id" ->
            SelectQuantityById(w, a.user_id, a.ingredient)
      [] op = "get_ingredient_measurement_unit_by_name" ->
            SelectUnitByName(w, a.ingredient)
      [] op = "get_ingredient_measurement_unit_by_id" ->
            SelectUnitById(w, a.ingredient)
      [] op = "get_ingredient_info_by_name" ->
            SelectInfoByName(w, a.ingredient, a.user_id)
      [] op = "get_ingredient_info_by_id" ->
            SelectInfoById(w, a.ingredient, a.user_id)
      [] op = "get_ingredient_id_by_name" -> SelectIdByName(w, a.ingredient)
      [] op = "ingredient_exists_in_inventory_by_name" ->
            CountInventoryByName(w, a.user_id, a.ingredient)
      [] op = "ingredient_exists_in_inventory_by_id" ->
            CountInventoryById(w, a.user_id, a.ingredient)
      [] op = "ingredient_exists_in_ingredients_by_name" ->
            CountIngredientsByName(w, a.ingredient)
      [] op = "ingredient_exists_in_ingredients_by_id" ->
            CountIngredientsById(w, a.ingredient)
      [] op = "get_all_ingredients_in_inventory" ->
            SelectAllInInventory(w, a.user_id)

LookupResult(op, table) ==
    CASE op \in {"get_ingredient_quantity_by_name", "get_ingredient_quantity_by_id"} ->
            QuantityResult(table)
      [] op = "get_ingredient_measurement_unit_by_name" -> UnitByNameResult(table)
      [] op = "get_ingredient_measurement_unit_by_id" -> UnitByIdResult(table)
      [] op \in {"get_ingredient_info_by_name", "get_ingredient_info_by_id"} ->
            InfoResult(table)
      [] op = "get_ingredient_id_by_name" -> IdByNameResult(table)
      [] op \in {"ingredient_exists_in_inventory_by_name",
                 "ingredient_exists_in_inventory_by_id",
                 "ingredient_exists_in_ingredients_by_name",
                 "ingredient_exists_in_ingredients_by_id"} -> ExistsResult(table)

\* res = await self.cur.execute(query, ...)
Lookup(w, f) ==
    To([w EXCEPT !.cursor = AfterSelect(@, LookupQuery(w, f.op, f.args))],
       [f EXCEPT !.pc = "fetch"])

\* table = await res.fetchone()  (fetchall for get_all_ingredients_in_inventory)
LookupFetch(w, f) ==
    IF f.op = "get_all_ingredients_in_inventory"
    THEN To([w EXCEPT !.cursor = AfterFetchAll(@)],
            Ended(f, AllResult(FetchAll(w.cursor), f.args.user_id)))
    ELSE To([w EXCEPT !.cursor = AfterFetchOne(@)],
            Ended(f, LookupResult(f.op, FetchOne(w.cursor))))

-----------------------------------------------------------------------------
(* create_test_user(email) *)

\* await self.cur.execute(query, (email,)): INSERT OR IGNORE INTO users
CreateTestUser(w, f) ==
    LET id == w.seq.users + 1
    IN IF UniqueEmail(w, f.args.data)
       THEN To([w EXCEPT !.users = @ \cup {[id |-> id, email |-> Val(f.args.data)]},
                         !.seq.users = id,
                         !.cursor = AfterInsert(@, id)],
               [f EXCEPT !.pc = "user_select", !.wrote = TRUE])
       ELSE To([w EXCEPT !.cursor = AfterIgnore(@)],
               [f EXCEPT !.pc = "user_select", !.wrote = TRUE])

\* await self.conn.commit(); cursor = await self.cur.execute(get_query, (email,))
CreateTestUserSelect(w, f) ==
    To([w EXCEPT !.cursor = AfterSelect(@, SelectUserId(w, f.args.data))],
       [f EXCEPT !.pc = "user_fetch"])

\* result = await cursor.fetchone(); return result[0] if result else None
CreateTestUserFetch(w, f) ==
    To([w EXCEPT !.cursor = AfterFetchOne(@)],
       Ended(f, UserIdResult(FetchOne(w.cursor))))

-----------------------------------------------------------------------------
(* add_ingredient_to_ingredients(ingredient) *)

\* if await self.ingredient_exists_in_ingredients_by_name(ingredient.name): ...
\* the execute of the existence check
AddIngredient(w, f) ==
    To([w EXCEPT !.cursor = AfterSelect(@, CountIngredientsByName(w, f.args.ingredient))],
       [f EXCEPT !.pc = "add_ing_exists"])

\* the fetch of the existence check, and the raise when the name exists
AddIngredientExists(w, f) ==
    LET exists == ExistsResult(FetchOne(w.cursor))
    IN To([w EXCEPT !.cursor = AfterFetchOne(@)],
          IF exists.kind = "raise" THEN Ended(f, exists)
          ELSE IF Val(exists.value)
               THEN Ended(f, Raise("IngredientAlreadyExistsInIngredientsError"))
               ELSE [f EXCEPT !.pc = "add_ing_insert"])

\* INSERT INTO ingredients (name, category, unit_type) VALUES (?, ?, ?)
AddIngredientInsert(w, f) ==
    LET ingredient == f.args.data
        id == w.seq.ingredients + 1
    IN IF UniqueIngredientName(w, PStr(ingredient.name))
       THEN To([w EXCEPT !.ingredients = @ \cup
                            {[id |-> id, name |-> ingredient.name,
                              category |-> ingredient.category,
                              unit_type |-> ingredient.unit_type]},
                         !.seq.ingredients = id,
                         !.cursor = AfterInsert(@, id)],
               [f EXCEPT !.pc = "add_ing_commit", !.wrote = TRUE])
       ELSE To([w EXCEPT !.cursor = AfterError(@)],
               [Ended(f, Raise("IntegrityError")) EXCEPT !.wrote = TRUE])

\* last_row_id = self.cur.lastrowid; await self.conn.commit();
\* if not last_row_id: rollback (of nothing: the commit came first), raise
AddIngredientCommit(w, f) ==
    LET last_row_id == PInt(w.cursor.lastrowid)
    IN To(w, IF ~Truthy(last_row_id) THEN Ended(f, Raise("IngredientInsertionError"))
             ELSE Ended(f, Return(last_row_id)))

-----------------------------------------------------------------------------
(* add_ingredient_into_inventory(user_id, ingredient_id, inventory_insertion) *)

\* if await self.ingredient_exists_in_inventory_by_id(ingredient_id, user_id): ...
\* the execute of the existence check
AddInventory(w, f) ==
    To([w EXCEPT !.cursor =
            AfterSelect(@, CountInventoryById(w, f.args.user_id, f.args.ingredient))],
       [f EXCEPT !.pc = "add_inv_exists"])

\* the fetch of the existence check, and the raise when the row exists
AddInventoryExists(w, f) ==
    LET exists == ExistsResult(FetchOne(w.cursor))
    IN To([w EXCEPT !.cursor = AfterFetchOne(@)],
          IF exists.kind = "raise" THEN Ended(f, exists)
          ELSE IF Val(exists.value)
               THEN Ended(f, Raise("IngredientAlreadyExistsInInventoryError"))
               ELSE [f EXCEPT !.pc = "add_inv_insert"])

\* the row INSERT INTO inventory (user_id, ingredient_id, quantity,
\* minimum_threshold, expiration_date) stores: created_at and updated_at
\* default to CURRENT_TIMESTAMP
NewInventoryRow(w, id, user_id, ingredient_id, inventory_insertion) ==
    [id |-> id, user_id |-> Val(user_id), ingredient_id |-> Val(ingredient_id),
     quantity |-> Val(Adapt(inventory_insertion.quantity)),
     minimum_threshold |-> Val(Adapt(inventory_insertion.minimum_threshold)),
     expiration_date |-> Adapt(inventory_insertion.expiration_date),
     created_at |-> w.now, updated_at |-> w.now]

\* await self.cur.execute(query, (user_id, ingredient_id, ...)): the INSERT
AddInventoryInsert(w, f) ==
    LET a == f.args
        id == w.seq.inventory + 1
    IN IF /\ UniqueInventoryPair(w, a.user_id, a.ingredient)
          /\ ForeignKeyUser(w, a.user_id)
          /\ ForeignKeyIngredient(w, a.ingredient)
       THEN To([w EXCEPT !.inventory = @ \cup
                            {NewInventoryRow(w, id, a.user_id, a.ingredient, a.data)},
                         !.seq.inventory = id,
                         !.cursor = AfterInsert(@, id),
                         !.writes = @ + 1],
               [f EXCEPT !.pc = "add_inv_commit", !.wrote = TRUE, !.stored = id])
       ELSE To([w EXCEPT !.cursor = AfterError(@)],
               [Ended(f, Raise("IntegrityError")) EXCEPT !.wrote = TRUE])

\* last_row_id = self.cur.lastrowid; await self.conn.commit();
\* if not last_row_id: rollback (of nothing), raise
AddInventoryCommit(w, f) ==
    LET last_row_id == PInt(w.cursor.lastrowid)
    IN To(w, IF ~Truthy(last_row_id) THEN Ended(f, Raise("IngredientInsertionError"))
             ELSE [f EXCEPT !.pc = "add_inv_timings", !.loc.last_row_id = last_row_id])

\* created_updated_res = await self.cur.execute(created_updated_timings_query, ...)
AddInventoryTimings(w, f) ==
    To([w EXCEPT !.cursor = AfterSelect(@, SelectTimings(w, f.loc.last_row_id))],
       [f EXCEPT !.pc = "add_inv_timings_fetch"])

\* created_updated_table = await created_updated_res.fetchone();
\* created_at, updated_at = created_updated_table
AddInventoryTimingsFetch(w, f) ==
    LET table == FetchOne(w.cursor)
    IN To([w EXCEPT !.cursor = AfterFetchOne(@)],
          IF ~Truthy(table) THEN Ended(f, Raise("IngredientInsertionError"))
          ELSE IF Len(Columns(table)) # 2 THEN Ended(f, Raise("ValueError"))
          ELSE [f EXCEPT !.pc = "add_inv_info", !.loc.timings = table])

\* ingredient_info_res = await self.cur.execute(ingredient_info_query, ...)
AddInventoryInfo(w, f) ==
    To([w EXCEPT !.cursor = AfterSelect(@, SelectIngredientInfo(w, f.args.ingredient))],
       [f EXCEPT !.pc = "add_inv_info_fetch"])

\* ingredient_info_table = await ingredient_info_res.fetchone(); ...
\* return IngredientFullResponse(...)
AddInventoryInfoFetch(w, f) ==
    LET table == FetchOne(w.cursor)
        a == f.args
        c == Columns(table)
        timings == Columns(f.loc.timings)
    IN To([w EXCEPT !.cursor = AfterFetchOne(@)],
          IF ~Truthy(table) THEN Ended(f, Raise("IngredientInsertionError"))
          ELSE IF Len(c) # 3 THEN Ended(f, Raise("ValueError"))
          ELSE Ended(f, IngredientFullResponse(
                   a.ingredient, f.loc.last_row_id, a.user_id,
                   timings[1], timings[2], c[1], c[2], c[3],
                   a.data.quantity, a.data.minimum_threshold,
                   a.data.expiration_date)))

-----------------------------------------------------------------------------
(* delete_ingredient_from_inventory_by_id / _by_name *)

\* the existence check a delete or an update starts with
ExistsQuery(w, op, a) ==
    IF ByName(op) THEN CountInventoryByName(w, a.user_id, a.ingredient)
    ELSE CountInventoryById(w, a.user_id, a.ingredient)

\* the WHERE clause without the user_id = ? term
TargetRowsOfAnyUser(w, op, a) ==
    IF ByName(op)
    THEN { r \in w.inventory :
             \E g \in w.ingredients :
                PStr(g.name) = a.ingredient /\ r.ingredient_id = g.id }
    ELSE { r \in w.inventory : PInt(r.ingredient_id) = a.ingredient }

\* the rows the WHERE clause of the DELETE or the UPDATE selects:
\*   by id:    WHERE user_id = ? AND ingredient_id = ?
\*   by name:  WHERE user_id = ? AND ingredient_id =
\*                 (SELECT id FROM ingredients WHERE name = ?)
TargetRows(w, op, a) ==
    IF ByName(op)
    THEN { r \in w.inventory :
             /\ PInt(r.user_id) = a.user_id
             /\ \E g \in w.ingredients :
                    PStr(g.name) = a.ingredient /\ r.ingredient_id = g.id }
    ELSE { r \in w.inventory :
             PInt(r.user_id) = a.user_id /\ PInt(r.ingredient_id) = a.ingredient }

\* if not await self.ingredient_exists_in_inventory_by_...: the execute
Delete(w, f) ==
    To([w EXCEPT !.cursor = AfterSelect(@, ExistsQuery(w, f.op, f.args))],
       [f EXCEPT !.pc = "del_exists"])

\* the fetch of the existence check; raise InventoryDeletionError if no row
DeleteExists(w, f) ==
    LET exists == ExistsResult(FetchOne(w.cursor))
    IN To([w EXCEPT !.cursor = AfterFetchOne(@)],
          IF exists.kind = "raise" THEN Ended(f, exists)
          ELSE IF ~Val(exists.value) THEN Ended(f, Raise("InventoryDeletionError"))
          ELSE [f EXCEPT !.pc = "del_delete"])

\* a DELETE that takes the catalog rows of the deleted inventory rows along
DeleteExecuteWithCatalog(w, f) ==
    LET gone == TargetRows(w, f.op, f.args)
    IN To([w EXCEPT !.inventory = @ \ gone,
                    !.ingredients = { g \in @ : \A r \in gone : r.ingredient_id # g.id },
                    !.cursor = AfterWrite(@, Cardinality(gone)),
                    !.writes = IF gone = {} THEN @ ELSE @ + 1],
          [f EXCEPT !.pc = "del_commit", !.wrote = TRUE,
                    !.affected = Cardinality(gone)])

\* await self.cur.execute(query, ...): DELETE FROM inventory WHERE ...
DeleteExecute(w, f) ==
    LET gone == TargetRows(w, f.op, f.args)
    IN To([w EXCEPT !.inventory = @ \ gone,
                    !.cursor = AfterWrite(@, Cardinality(gone)),
                    !.writes = IF gone = {} THEN @ ELSE @ + 1],
          [f EXCEPT !.pc = "del_commit", !.wrote = TRUE,
                    !.affected = Cardinality(gone)])

\* await self.conn.commit(); if self.cur.rowcount == 0: return False; return True
DeleteCommit(w, f) ==
    To(w, Ended(f, Return(PBool(w.cursor.rowcount # 0))))

-----------------------------------------------------------------------------
(* update_ingredient_in_inventory_by_id / _by_name *)

\* the fields of an update whose list holds updated_at before it is tested
\* for emptiness
UpdateFieldsWithStamp(updates) ==
    { k \in UpdateKeys : updates[k] # Absent /\ updates[k] # None } \cup {"updated_at"}

\* for key, value in updates.items(): if value is not None: ...
UpdateFields(updates) ==
    { k \in UpdateKeys : updates[k] # Absent /\ updates[k] # None }

\* the SET clause that also writes the keys whose value is None
UpdatedWritingNone(w, r, updates) ==
    [r EXCEPT
       !.quantity =
           IF "quantity" \in UpdateFields(updates)
           THEN Val(Adapt(updates.quantity)) ELSE @,
       !.minimum_threshold =
           IF "minimum_threshold" \in UpdateFields(updates)
           THEN Val(Adapt(updates.minimum_threshold)) ELSE @,
       !.expiration_date =
           IF updates.expiration_date = Absent THEN @
           ELSE Adapt(updates.expiration_date),
       !.updated_at = w.now]

\* the SET clause that stamps created_at as well
UpdatedStampingBoth(w, r, updates) ==
    [r EXCEPT !.created_at = w.now, !.updated_at = w.now]

\* SET <key> = ? for every key kept, and updated_at = CURRENT_TIMESTAMP
Updated(w, r, updates) ==
    LET fields == UpdateFields(updates)
    IN [r EXCEPT
          !.quantity =
              IF "quantity" \in fields THEN Val(Adapt(updates.quantity)) ELSE @,
          !.minimum_threshold =
              IF "minimum_threshold" \in fields
              THEN Val(Adapt(updates.minimum_threshold)) ELSE @,
          !.expiration_date =
              IF "expiration_date" \in fields THEN Adapt(updates.expiration_date) ELSE @,
          !.updated_at = w.now]

\* if not await self.ingredient_exists_in_inventory_by_...: the execute
Update(w, f) ==
    To([w EXCEPT !.cursor = AfterSelect(@, ExistsQuery(w, f.op, f.args))],
       [f EXCEPT !.pc = "upd_exists"])

\* the fetch of the existence check; raise InventoryUpdateError if no row;
\* if not update_fields: raise InventoryUpdateError
UpdateExists(w, f) ==
    LET exists == ExistsResult(FetchOne(w.cursor))
    IN To([w EXCEPT !.cursor = AfterFetchOne(@)],
          IF exists.kind = "raise" THEN Ended(f, exists)
          ELSE IF ~Val(exists.value) THEN Ended(f, Raise("InventoryUpdateError"))
          ELSE IF UpdateFields(f.args.data) = {}
               THEN Ended(f, Raise("InventoryUpdateError"))
               ELSE [f EXCEPT !.pc = "upd_update"])

\* await self.cur.execute(query, update_values): UPDATE inventory SET ... WHERE ...
UpdateExecute(w, f) ==
    LET hit == TargetRows(w, f.op, f.args)
    IN To([w EXCEPT !.inventory = (@ \ hit) \cup { Updated(w, r, f.args.data) : r \in hit },
                    !.cursor = AfterWrite(@, Cardinality(hit)),
                    !.writes = IF hit = {} THEN @ ELSE @ + 1],
          [f EXCEPT !.pc = "upd_commit", !.wrote = TRUE,
                    !.affected = Cardinality(hit)])

\* await self.conn.commit(); if self.cur.rowcount == 0: raise InventoryUpdateError
UpdateCommit(w, f) ==
    To(w, IF w.cursor.rowcount = 0 THEN Ended(f, Raise("InventoryUpdateError"))
          ELSE [f EXCEPT !.pc = "upd_select"])

\* updated_info_res = await self.cur.execute(updated_info_query, ...)
UpdateSelect(w, f) ==
    LET rows == IF ByName(f.op)
                THEN SelectUpdatedByName(w, f.args.ingredient, f.args.user_id)
                ELSE SelectUpdatedById(w, f.args.ingredient, f.args.user_id)
    IN To([w EXCEPT !.cursor = AfterSelect(@, rows)],
          [f EXCEPT !.pc = "upd_fetch", !.found = Len(rows)])

\* updated_info_table = await updated_info_res.fetchone(); unpack;
\* return IngredientFullResponse(...)
UpdateFetch(w, f) ==
    LET table == FetchOne(w.cursor)
        a == f.args
        c == Columns(table)
    IN To([w EXCEPT !.cursor = AfterFetchOne(@)],
          IF ~Truthy(table) THEN Ended(f, Raise("InventoryUpdateError"))
          ELSE IF ByName(f.op)
          THEN IF Len(c) # 10 THEN Ended(f, Raise("ValueError"))
               ELSE Ended(f, IngredientFullResponse(
                        c[1], c[5], a.user_id, c[9], c[10], c[2], c[3], c[4],
                        c[6], c[7], c[8]))
          ELSE IF Len(c) # 9 THEN Ended(f, Raise("ValueError"))
               ELSE Ended(f, IngredientFullResponse(
                        a.ingredient, c[4], a.user_id, c[8], c[9], c[1], c[2], c[3],
                        c[5], c[6], c[7])))

-----------------------------------------------------------------------------
(* Running a coroutine *)

\* the first statement of a call: self.cur.execute raises at once when there
\* is no cursor or no table
FirstStatement(w, f) ==
    IF ExecuteError(w, f.op) # "" THEN To(w, Ended(f, Raise(ExecuteError(w, f.op))))
    ELSE CASE f.op \in LookupMethods -> Lookup(w, f)
           [] f.op = "create_test_user" -> CreateTestUser(w, f)
           [] f.op = "add_ingredient_to_ingredients" -> AddIngredient(w, f)
           [] f.op = "add_ingredient_into_inventory" -> AddInventory(w, f)
           [] f.op \in DeleteMethods -> Delete(w, f)
           [] f.op \in UpdateMethods -> Update(w, f)

\* the coroutine with frame f runs from where it is to its next await
Advance(w, f) ==
    CASE f.pc = "call" -> FirstStatement(w, f)
      [] f.pc = "fetch" -> LookupFetch(w, f)
      [] f.pc = "user_select" -> CreateTestUserSelect(w, f)
      [] f.pc = "user_fetch" -> CreateTestUserFetch(w, f)
      [] f.pc = "add_ing_exists" -> AddIngredientExists(w, f)
      [] f.pc = "add_ing_insert" -> AddIngredientInsert(w, f)
      [] f.pc = "add_ing_commit" -> AddIngredientCommit(w, f)
      [] f.pc = "add_inv_exists" -> AddInventoryExists(w, f)
      [] f.pc = "add_inv_insert" -> AddInventoryInsert(w, f)
      [] f.pc = "add_inv_commit" -> AddInventoryCommit(w, f)
      [] f.pc = "add_inv_timings" -> AddInventoryTimings(w, f)
      [] f.pc = "add_inv_timings_fetch" -> AddInventoryTimingsFetch(w, f)
      [] f.pc = "add_inv_info" -> AddInventoryInfo(w, f)
      [] f.pc = "add_inv_info_fetch" -> AddInventoryInfoFetch(w, f)
      [] f.pc = "del_exists" -> DeleteExists(w, f)
      [] f.pc = "del_delete" -> DeleteExecute(w, f)
      [] f.pc = "del_commit" -> DeleteCommit(w, f)
      [] f.pc = "upd_exists" -> UpdateExists(w, f)
      [] f.pc = "upd_update" -> UpdateExecute(w, f)
      [] f.pc = "upd_commit" -> UpdateCommit(w, f)
      [] f.pc = "upd_select" -> UpdateSelect(w, f)
      [] f.pc = "upd_fetch" -> UpdateFetch(w, f)

\* the coroutine runs to its end with nothing in between: `await call(...)`
\* of a caller that is alone
RECURSIVE Run(_, _)
Run(w, f) ==
    IF f.pc = "done" THEN To(w, f)
    ELSE LET next == Advance(w, f) IN Run(next.w, next.f)

InCall(t) == task[t].pc \notin {"idle", "done"}

\* the calls in flight that may still write to the inventory
WritersInFlight ==
    Cardinality({ t \in Tasks : /\ InCall(t) /\ task[t].op \in InventoryWriters
                                /\ ~task[t].wrote })

\* the bound on the statements that change the inventory
MayCall(c) ==
    c.op \in InventoryWriters => writes + WritersInFlight < MaxWrites

-----------------------------------------------------------------------------
(* Initial states *)

\* SqliteManager(db_name) on a database that does not exist yet
Init ==
    /\ conn = FALSE
    /\ curSet = FALSE
    /\ tables = 0
    /\ connected = FALSE
    /\ users = {}
    /\ ingredients = {}
    /\ inventory = {}
    /\ seq = [users |-> 0, ingredients |-> 0, inventory |-> 0]
    /\ cursor = NewCursor
    /\ now = 0
    /\ writes = 0
    /\ task = [t \in Tasks |-> Idle]

\* the application once lifespan() has run connect() and create_test_user()
\* on a database that did not exist: every table is there and empty but for
\* the test user
Startup ==
    /\ conn = TRUE
    /\ curSet = TRUE
    /\ tables = Len(SchemaOrder)
    /\ connected = TRUE
    /\ users = {[id |-> 1, email |-> TestEmail]}
    /\ ingredients = {}
    /\ inventory = {}
    /\ seq = [users |-> 1, ingredients |-> 0, inventory |-> 0]
    /\ cursor = [rows |-> <<>>, lastrowid |-> 1, rowcount |-> -1]
    /\ now = 0
    /\ writes = 0
    /\ task = [t \in Tasks |-> Idle]

-----------------------------------------------------------------------------
(* Actions *)

\* where connect() may raise: opening the database, the PRAGMA, or the
\* fourth schema statement; "" when nothing raises
FailPoints == {"", "connect", "pragma", "conversions"}

\* the number of schema statements applied when connect() raises at `fail`
Applied(fail) ==
    CASE fail \in {"connect", "pragma"} -> 0
      [] fail = "conversions" -> 3
      [] OTHER -> Len(SchemaOrder)

\* await manager.connect(), while no call is in flight
Connect(fail) ==
    /\ ~connected
    /\ \A t \in Tasks : ~InCall(t)
    /\ conn' = (conn \/ fail # "connect")
    /\ curSet' = (curSet \/ fail \notin {"connect", "pragma"})
    /\ cursor' = IF fail \notin {"connect", "pragma"} THEN NewCursor ELSE cursor
    /\ tables' = IF Applied(fail) > tables THEN Applied(fail) ELSE tables
    /\ connected' = (fail = "")
    /\ UNCHANGED <<users, ingredients, inventory, seq, now, writes, task>>

\* a second passes (between calls or while calls are in flight; a caller
\* holding an outcome takes it first)
Tick ==
    /\ now < MaxClock
    /\ \A t \in Tasks : task[t].pc # "done"
    /\ now' = now + 1
    /\ UNCHANGED <<conn, connected, curSet, tables, users, ingredients, inventory,
                   seq, cursor, writes, task>>

\* the caller takes the outcome of its last call
Finish(t) ==
    /\ task[t].pc = "done"
    /\ task' = [task EXCEPT ![t] = Idle]
    /\ UNCHANGED <<conn, connected, curSet, tables, users, ingredients, inventory,
                   seq, cursor, now, writes>>

\* task t awaits the call c while no other task runs
Await(t, c) ==
    /\ task[t].pc = "idle"
    /\ MayCall(c)
    /\ LET end == Run(World, Begin(World, c))
       IN /\ Becomes(end.w)
          /\ task' = [task EXCEPT ![t] = end.f]
    /\ UNCHANGED <<conn, connected>>

\* task t starts the call c: the coroutine runs to its first await
Start(t, c) ==
    /\ task[t].pc = "idle"
    /\ MayCall(c)
    /\ LET next == Advance(World, Begin(World, c))
       IN /\ Becomes(next.w)
          /\ task' = [task EXCEPT ![t] = next.f]
    /\ UNCHANGED <<conn, connected>>

\* the event loop resumes the coroutine of task t: it runs to its next await
Resume(t) ==
    /\ InCall(t)
    /\ LET next == Advance(World, task[t])
       IN /\ Becomes(next.w)
          /\ task' = [task EXCEPT ![t] = next.f]
    /\ UNCHANGED <<conn, connected>>

-----------------------------------------------------------------------------
(* Specifications *)

\* the calls of the manager's methods
Calls ==
    LookupCalls \cup CreateTestUserCalls \cup AddIngredientCalls
    \cup AddInventoryCalls \cup DeleteCalls \cup UpdateCalls

\* one caller on a connected manager: every call runs to its end before the
\* next one starts
Next ==
    \/ \E c \in Calls : Await(1, c)
    \/ Finish(1)
    \/ Tick

Spec == Startup /\ [][Next]_vars

\* the application with "flour" in the catalog: Startup, then
\* add_ingredient_to_ingredients(flour) run to its end
RaceStart ==
    /\ conn = TRUE
    /\ curSet = TRUE
    /\ tables = Len(SchemaOrder)
    /\ connected = TRUE
    /\ users = {[id |-> 1, email |-> TestEmail]}
    /\ ingredients = {[id |-> 1, name |-> "flour", category |-> "staple",
                       unit_type |-> "grams"]}
    /\ inventory = {}
    /\ seq = [users |-> 1, ingredients |-> 1, inventory |-> 0]
    /\ cursor = [rows |-> <<>>, lastrowid |-> 1, rowcount |-> 1]
    /\ now = 0
    /\ writes = 0
    /\ task = [t \in Tasks |-> Idle]

\* the calls two requests of the test user about flour make of the manager
RaceCalls ==
    { c \in AddInventoryCalls \cup DeleteCalls \cup LookupCalls \cup UpdateCalls :
        /\ c.op \in {"add_ingredient_into_inventory",
                     "delete_ingredient_from_inventory_by_id",
                     "update_ingredient_in_inventory_by_id",
                     "get_ingredient_quantity_by_id"}
        /\ c.args.user_id = PInt(1) /\ c.args.ingredient = PInt(1)
        /\ c.op \in UpdateMethods => c.args.data = Updates(PReal(9), None, None) }

\* two tasks on the one manager: the event loop runs one coroutine up to its
\* next await, then any coroutine that is ready
NextRace ==
    \/ \E t \in Tasks : \E c \in RaceCalls : Start(t, c)
    \/ \E t \in Tasks : Resume(t)
    \/ \E t \in Tasks : Finish(t)
    \/ Tick

SpecRace == RaceStart /\ [][NextRace]_vars

\* a manager that is constructed and never successfully connected: a caller
\* alone calls connect(), which may raise part-way, and the methods
NextLifecycle ==
    \/ \E fail \in FailPoints : Connect(fail)
    \/ \E c \in Calls : ~connected /\ Await(1, c)
    \/ Finish(1)

SpecLifecycle == Init /\ [][NextLifecycle]_vars

-----------------------------------------------------------------------------
(* Deleting a catalog row.  The manager has no method for it: a caller      *)
(* issues DELETE FROM ingredients WHERE id = ? on the manager's connection, *)
(* and what happens to the inventory is the schema's doing.                 *)

\* at most MaxCatalogDeletes catalog rows are ever deleted
MaxCatalogDeletes == 1

\* an inventory whose foreign key on ingredient_id takes no action
OnDeleteCascadeOff(w, ingredient_id) ==
    {}

\* inventory: FOREIGN KEY (ingredient_id) REFERENCES ingredients(id)
\* ON DELETE CASCADE, under PRAGMA foreign_keys = ON: the inventory rows that
\* go with the catalog row
OnDeleteCascade(w, ingredient_id) ==
    { r \in w.inventory : PInt(r.ingredient_id) = ingredient_id }

\* DELETE FROM ingredients WHERE id = ?, committed
CatalogDelete(w, ingredient_id) ==
    LET gone == { g \in w.ingredients : PInt(g.id) = ingredient_id }
    IN [w EXCEPT !.ingredients = @ \ gone,
                 !.inventory = IF gone = {} THEN @
                               ELSE @ \ OnDeleteCascade(w, ingredient_id),
                 !.cursor = AfterWrite(@, Cardinality(gone))]

\* the catalog rows deleted so far: the ids given out less the rows stored
CatalogDeletes == seq.ingredients - Cardinality(ingredients)

\* the caller of task t deletes the catalog row with the id, if there is one
DeleteIngredient(t, ingredient_id) ==
    /\ task[t].pc = "idle"
    /\ CatalogDeletes < MaxCatalogDeletes
    /\ LET f == Begin(World, Invocation("DELETE FROM ingredients",
                                        Args(ingredient_id, None, None)))
       IN /\ Becomes(CatalogDelete(World, ingredient_id))
          /\ task' = [task EXCEPT ![t] = [Ended(f, Return(None)) EXCEPT !.wrote = TRUE]]
    /\ UNCHANGED <<conn, connected>>

\* the calls that fill the catalog and the inventory and ask whether a user
\* holds an ingredient
CascadeCalls ==
    AddIngredientCalls \cup AddInventoryCalls \cup CreateTestUserCalls
    \cup { c \in LookupCalls : c.op \in {"ingredient_exists_in_inventory_by_name",
                                         "ingredient_exists_in_inventory_by_id"} }

\* one caller that also deletes catalog rows
NextCascade ==
    \/ \E c \in CascadeCalls : Await(1, c)
    \/ \E i \in IdArgs : DeleteIngredient(1, i)
    \/ Finish(1)

SpecCascade == Startup /\ [][NextCascade]_vars

-----------------------------------------------------------------------------
(* Lookups racing lookups: the rows are written by calls that run alone,    *)
(* and the read-only methods of two tasks interleave with each other only.  *)

\* the calls that store flour and the test user's row for it
SetupCalls ==
    { c \in AddIngredientCalls \cup AddInventoryCalls :
        /\ c.args.user_id \in {None, PInt(1)}
        /\ c.args.ingredient \in {PStr("flour"), PInt(1)} }

\* the read-only calls of the test user about flour
LookupRaceCalls ==
    { c \in LookupCalls :
        /\ c.args.user_id \in {None, PInt(1)}
        /\ c.args.ingredient \in {None, PStr("flour"), PInt(1)} }

\* no task is in a call or holds an outcome
Quiet == \A t \in Tasks : task[t].pc = "idle"

NextLookups ==
    \/ \E c \in SetupCalls : Quiet /\ Await(1, c)
    \/ \E t \in Tasks : \E c \in LookupRaceCalls : Start(t, c)
    \/ \E t \in Tasks : Resume(t)
    \/ \E t \in Tasks : Finish(t)

SpecLookups == Startup /\ [][NextLookups]_vars

-----------------------------------------------------------------------------
(* The manager called with a plain dict *)

\* updates: dict -- the update methods take any mapping; the bounds of
\* InventoryUpdate are applied by the PATCH handler, not by the manager
DictMappings ==
    UpdateMappings \cup { Updates(PReal(-1), Absent, Absent),
                          Updates(Absent, PReal(-2), Absent) }

\* the lookups that build a pydantic record of the rows they read
RecordMethods ==
    { "get_ingredient_info_by_name", "get_ingredient_info_by_id",
      "get_all_ingredients_in_inventory" }

DirectCalls ==
    AddIngredientCalls \cup AddInventoryCalls
    \cup { c \in LookupCalls : c.op \in RecordMethods }
    \cup UNION { { Invocation(op, Args(i, u, updates)) :
                     i \in (IF ByName(op) THEN NameArgs ELSE IdArgs),
                     u \in UserArgs, updates \in DictMappings } :
                 op \in UpdateMethods }

\* one caller that adds, updates and reads the rows back
NextDirect ==
    \/ \E c \in DirectCalls : Await(1, c)
    \/ Finish(1)
    \/ Tick

SpecDirect == Startup /\ [][NextDirect]_vars

-----------------------------------------------------------------------------
(* The request handlers of main.py.  A handler is a coroutine of its own:   *)
(* task 2 runs the handler, and each manager method the handler awaits is   *)
(* a call of task 1 that runs to its end (requests are served one at a      *)
(* time) and whose outcome the handler then takes.                          *)

\* async def get_current_user_id() -> int: return 1
get_current_user_id == PInt(1)

\* raise HTTPException(status_code=..., detail=...)
HTTPException(status_code) ==
    [kind |-> "raise", error |-> "HTTPException", status_code |-> status_code]

\* the manager method the handler with frame f awaits where it stands
Awaited(f) ==
    CASE f.pc = "exists_in_inventory" /\ f.op = "POST /v1/inventory" ->
            Invocation("ingredient_exists_in_inventory_by_name",
                       Args(f.args.ingredient, f.args.user_id, None))
      [] f.pc = "exists_in_inventory" /\ f.op # "POST /v1/inventory" ->
            Invocation("ingredient_exists_in_inventory_by_id",
                       Args(f.args.ingredient, f.args.user_id, None))
      [] f.pc = "exists_in_ingredients" ->
            Invocation("ingredient_exists_in_ingredients_by_name",
                       Args(f.args.ingredient, None, None))
      [] f.pc = "add_to_ingredients" ->
            Invocation("add_ingredient_to_ingredients",
                       Args(f.args.ingredient, None,
                            [name |-> f.args.data.name,
                             category |-> f.args.data.category,
                             unit_type |-> f.args.data.unit_type]))
      [] f.pc = "get_id" ->
            Invocation("get_ingredient_id_by_name", Args(f.args.ingredient, None, None))
      [] f.pc = "add_into_inventory" ->
            Invocation("add_ingredient_into_inventory",
                       Args(f.loc.ingredient_id, f.args.user_id,
                            [quantity |-> f.args.data.quantity,
                             minimum_threshold |-> f.args.data.minimum_threshold,
                             expiration_date |-> f.args.data.expiration_date]))
      [] f.pc = "delete" ->
            Invocation("delete_ingredient_from_inventory_by_id",
                       Args(f.args.ingredient, f.args.user_id, None))
      [] f.pc = "update" ->
            Invocation("update_ingredient_in_inventory_by_id",
                       Args(f.args.ingredient, f.args.user_id, f.args.data))

\* the branch taken whatever the catalog holds: always add the catalog row
AfterKnownAlwaysAdds(known) == "add_to_ingredients"

\* if not ingredient_exists_in_ingredients_table: add_ingredient_to_ingredients
\* else: get_ingredient_id_by_name
AfterKnown(known) == IF ~known THEN "add_to_ingredients" ELSE "get_id"

\* the response with the category and unit_type of the request body
PostResponseOfRequest(ingredient, inventory_meta_data) ==
    [inventory_meta_data EXCEPT !.value[2].category = ingredient.category,
                                !.value[2].unit_type = ingredient.unit_type]

\* return inventory_meta_data: the record add_ingredient_into_inventory built
PostResponse(ingredient, inventory_meta_data) == inventory_meta_data

\* POST /v1/inventory: the handler takes the outcome `out` of the method it
\* awaited.  An exception of add_ingredient_to_ingredients or of
\* add_ingredient_into_inventory becomes an HTTPException (409 for the
\* already-exists errors, else 500); the outer `except HTTPException as e:
\* raise e` hands an HTTPException on as it is, and any other exception
\* leaves the handler.
add_ingredient_to_inventory(f, out) ==
    CASE f.pc = "exists_in_inventory" ->
            IF out.kind = "raise" THEN Ended(f, out)
            ELSE IF Truthy(out.value) THEN Ended(f, HTTPException(409))
            ELSE [f EXCEPT !.pc = "exists_in_ingredients"]
      [] f.pc = "exists_in_ingredients" ->
            IF out.kind = "raise" THEN Ended(f, out)
            ELSE [f EXCEPT !.pc = AfterKnown(Truthy(out.value))]
      [] f.pc = "add_to_ingredients" ->
            IF out.kind = "return"
            THEN [f EXCEPT !.pc = "add_into_inventory",
                           !.loc = [ingredient_id |-> out.value]]
            ELSE IF out.error = "IngredientAlreadyExistsInIngredientsError"
                 THEN Ended(f, HTTPException(409))
                 ELSE Ended(f, HTTPException(500))
      [] f.pc = "get_id" ->
            IF out.kind = "raise" THEN Ended(f, out)
            ELSE IF ~Truthy(out.value) THEN Ended(f, HTTPException(404))
            ELSE [f EXCEPT !.pc = "add_into_inventory",
                           !.loc = [ingredient_id |-> out.value]]
      [] f.pc = "add_into_inventory" ->
            IF out.kind = "return" THEN Ended(f, PostResponse(f.args.data, out))
            ELSE IF out.error = "IngredientAlreadyExistsInInventoryError"
                 THEN Ended(f, HTTPException(409))
                 ELSE Ended(f, HTTPException(500))

\* except Exception as e:
\*     if e.__class__.__name__ == "InventoryDeletionError": raise HTTPException(404)
\*     else: raise HTTPException(500)
\* (an HTTPException raised in the try is an Exception too)
DeleteExcept(e) ==
    IF e.error = "InventoryDeletionError" THEN HTTPException(404)
    ELSE HTTPException(500)

\* DELETE /v1/inventory/by_id/{ingredient_id}
delete_ingredient_from_inventory_by_id(f, out) ==
    CASE f.pc = "exists_in_inventory" ->
            IF out.kind = "raise" THEN Ended(f, DeleteExcept(out))
            ELSE IF ~Truthy(out.value) THEN Ended(f, DeleteExcept(HTTPException(404)))
            ELSE [f EXCEPT !.pc = "delete"]
      [] f.pc = "delete" ->
            IF out.kind = "raise" THEN Ended(f, DeleteExcept(out))
            ELSE IF ~Truthy(out.value) THEN Ended(f, DeleteExcept(HTTPException(404)))
            ELSE Ended(f, Return(None))

\* except HTTPException as e: raise HTTPException(status_code=500, ...)
\* (the outer clause: any other exception leaves the handler)
UpdateExcept(e) ==
    IF e.error = "HTTPException" THEN HTTPException(500) ELSE e

\* PATCH /v1/inventory/by_id/{ingredient_id}; the 404 and the 400 are raised
\* inside the outer try.  updates.model_dump(exclude_unset=True) keeps the
\* keys the body has set.
update_ingredient_in_inventory_by_id(f, out) ==
    CASE f.pc = "exists_in_inventory" ->
            IF out.kind = "raise" THEN Ended(f, UpdateExcept(out))
            ELSE IF ~Truthy(out.value) THEN Ended(f, UpdateExcept(HTTPException(404)))
            ELSE [f EXCEPT !.pc = "update"]
      [] f.pc = "update" ->
            IF out.kind = "return" THEN Ended(f, out)
            ELSE IF out.error = "InventoryUpdateError"
                 THEN Ended(f, UpdateExcept(HTTPException(400)))
                 ELSE Ended(f, UpdateExcept(HTTPException(500)))

\* the status of the response: the route's own when the handler returns, the
\* HTTPException's status_code, and 500 for any other exception
StatusCode(route, out) ==
    IF out.kind = "return" THEN (IF route = "POST /v1/inventory" THEN 201 ELSE 200)
    ELSE IF out.error = "HTTPException" THEN out.status_code
    ELSE 500

\* the Ingredient bodies of POST /v1/inventory: a name may come with the
\* category and unit_type of either catalog entry
Bodies ==
    { [name |-> n, category |-> g.category, unit_type |-> g.unit_type,
       quantity |-> InventoryInsertion(i).quantity,
       minimum_threshold |-> InventoryInsertion(i).minimum_threshold,
       expiration_date |-> InventoryInsertion(i).expiration_date] :
        n \in Names, g \in IngredientInsertions, i \in IngredientIds }

Routes ==
    {"POST /v1/inventory", "DELETE /v1/inventory/by_id", "PATCH /v1/inventory/by_id"}

Requests ==
    { Invocation("POST /v1/inventory", Args(PStr(b.name), get_current_user_id, b)) :
        b \in Bodies }
    \cup { Invocation("DELETE /v1/inventory/by_id", Args(i, get_current_user_id, None)) :
             i \in IdArgs }
    \cup { Invocation("PATCH /v1/inventory/by_id", Args(i, get_current_user_id, u)) :
             i \in IdArgs, u \in UpdateMappings }

\* the application takes the request r: the handler's frame keeps the
\* request and the tables as the request found them
Request(h, r) ==
    /\ \A t \in Tasks : task[t].pc = "idle"
    /\ writes < MaxWrites
    /\ task' = [task EXCEPT ![h] = [Begin(World, r) EXCEPT !.pc = "exists_in_inventory"]]
    /\ UNCHANGED <<conn, connected, curSet, tables, users, ingredients, inventory,
                   seq, cursor, now, writes>>

\* the handler of task h awaits the method it has come to: task t runs it
Serve(h, t) ==
    /\ task[h].op \in Routes /\ InCall(h)
    /\ Await(t, Awaited(task[h]))

\* the handler of task h takes the outcome of the method task t ran
Take(h, t) ==
    /\ task[h].op \in Routes /\ InCall(h)
    /\ task[t].pc = "done"
    /\ task' = [task EXCEPT
          ![t] = Idle,
          ![h] = CASE @.op = "POST /v1/inventory" ->
                         add_ingredient_to_inventory(@, task[t].out)
                   [] @.op = "DELETE /v1/inventory/by_id" ->
                         delete_ingredient_from_inventory_by_id(@, task[t].out)
                   [] @.op = "PATCH /v1/inventory/by_id" ->
                         update_ingredient_in_inventory_by_id(@, task[t].out)]
    /\ UNCHANGED <<conn, connected, curSet, tables, users, ingredients, inventory,
                   seq, cursor, now, writes>>

NextApi ==
    \/ \E r \in Requests : Request(2, r)
    \/ Serve(2, 1)
    \/ Take(2, 1)
    \/ Finish(2)
    \/ Tick

SpecApi == Startup /\ [][NextApi]_vars

-----------------------------------------------------------------------------
(* Properties.  A frame at "done" holds the call's arguments, its outcome   *)
(* and the tables as the call found them (pre).                            *)

Done(t) == task[t].pc = "done"

\* the catalog rows of the table `catalog` with the name `name`
Named(catalog, name) == { g \in catalog : PStr(g.name) = name }

\* the inventory rows of `rows` of the user and the ingredient id
Held(rows, user_id, ingredient_id) ==
    { r \in rows : PInt(r.user_id) = user_id /\ PInt(r.ingredient_id) = ingredient_id }

\* the inventory rows a snapshot holds for a user and an ingredient given by
\* id, or by name through the catalog
HeldBy(snapshot, op, a) ==
    IF ByName(op)
    THEN UNION { Held(snapshot.inventory, a.user_id, PInt(g.id)) :
                   g \in Named(snapshot.ingredients, a.ingredient) }
    ELSE Held(snapshot.inventory, a.user_id, a.ingredient)

\* C1: the catalog never holds two rows with one name; a call of
\* add_ingredient_to_ingredients that finds the name in the catalog raises
\* IngredientAlreadyExistsInIngredientsError without issuing a statement that
\* writes and leaves the catalog as it was; a call that returns leaves
\* exactly one row with the name; and a name a call finds in the catalog is
\* still there, once, when the call has ended
C1_CatalogNameAddedOnce ==
    /\ \A n \in NameArgs : Cardinality(Named(ingredients, n)) <= 1
    /\ \A t \in Tasks : Done(t) =>
          /\ \A n \in NameArgs :
                Cardinality(Named(task[t].pre.ingredients, n)) = 1
                   => Cardinality(Named(ingredients, n)) = 1
          /\ task[t].op = "add_ingredient_to_ingredients" =>
                /\ Named(task[t].pre.ingredients, task[t].args.ingredient) # {} =>
                      /\ task[t].out = Raise("IngredientAlreadyExistsInIngredientsError")
                      /\ ~task[t].wrote
                      /\ ingredients = task[t].pre.ingredients
                /\ task[t].out.kind = "return" =>
                      Cardinality(Named(ingredients, task[t].args.ingredient)) = 1

\* a second add of a name has ended
C1_SecondAddRefused ==
    \E t \in Tasks :
       /\ Done(t) /\ task[t].op = "add_ingredient_to_ingredients"
       /\ Named(task[t].pre.ingredients, task[t].args.ingredient) # {}
       /\ task[t].out.kind = "raise"

\* C2: a call of add_ingredient_into_inventory, run alone, that finds a row
\* of the user for the ingredient raises
\* IngredientAlreadyExistsInInventoryError, issues no write and leaves the
\* inventory, that row included, as it was
C2_SecondAddToInventoryRefused ==
    \A t \in Tasks :
       (/\ Done(t) /\ task[t].op = "add_ingredient_into_inventory"
        /\ Held(task[t].pre.inventory, task[t].args.user_id, task[t].args.ingredient) # {})
       => /\ task[t].out = Raise("IngredientAlreadyExistsInInventoryError")
          /\ ~task[t].wrote
          /\ inventory = task[t].pre.inventory

\* a second add of a pair has ended, the row of the first still stored
C2_SecondAddToInventory ==
    \E t \in Tasks :
       /\ Done(t) /\ task[t].op = "add_ingredient_into_inventory"
       /\ Held(task[t].pre.inventory, task[t].args.user_id, task[t].args.ingredient) # {}
       /\ Held(inventory, task[t].args.user_id, task[t].args.ingredient) # {}
       /\ task[t].out.kind = "raise"

\* the statement of C3 about the INSERT of add_ingredient_into_inventory:
\* it leaves at most one row for the pair, and when a row for the pair is
\* there it raises the storage engine's IntegrityError and stores nothing
C3_InsertKeepsPairUnique(t) ==
    LET a == task[t].args
    IN (task[t].pc = "add_inv_insert" /\ task'[t].pc # "add_inv_insert") =>
          /\ Cardinality(Held(inventory', a.user_id, a.ingredient)) <= 1
          /\ Held(inventory, a.user_id, a.ingredient) # {} =>
                /\ task'[t].out = Raise("IntegrityError")
                /\ inventory' = inventory

\* C3: in every state the inventory holds at most one row for a user and an
\* ingredient, also when two calls of add_ingredient_into_inventory for the
\* pair have both passed the existence check before either writes; the
\* INSERT that comes second raises IntegrityError and stores nothing
C3_OneRowPerPair ==
    /\ [](\A u \in UserArgs, i \in IdArgs : Cardinality(Held(inventory, u, i)) <= 1)
    /\ [][\A t \in Tasks : C3_InsertKeepsPairUnique(t)]_vars

\* both calls have passed the existence check, one has stored its row and
\* the INSERT of the other has raised
C3_LaterInsertFailed ==
    \E t \in Tasks, o \in Tasks :
       /\ t # o
       /\ Done(t) /\ task[t].op = "add_ingredient_into_inventory"
       /\ task[t].out = Raise("IntegrityError")
       /\ task[o].op = "add_ingredient_into_inventory" /\ task[o].args = task[t].args
       /\ task[o].wrote /\ task[o].pc # "idle"
       /\ Held(task[t].pre.inventory, task[t].args.user_id, task[t].args.ingredient) = {}
       /\ Held(task[o].pre.inventory, task[t].args.user_id, task[t].args.ingredient) = {}
       /\ Cardinality(Held(inventory, task[t].args.user_id, task[t].args.ingredient)) = 1

\* C4: every inventory row references a catalog row and a user that exist;
\* a call of add_ingredient_into_inventory with an ingredient_id or a
\* user_id that does not exist raises and stores no row
C4_InventoryReferencesExist ==
    /\ \A r \in inventory :
          /\ \E g \in ingredients : g.id = r.ingredient_id
          /\ \E u \in users : u.id = r.user_id
    /\ \A t \in Tasks :
          (/\ Done(t) /\ task[t].op = "add_ingredient_into_inventory"
           /\ \/ ~ \E g \in task[t].pre.ingredients : PInt(g.id) = task[t].args.ingredient
              \/ ~ \E u \in task[t].pre.users : PInt(u.id) = task[t].args.user_id)
          => /\ task[t].out.kind = "raise"
             /\ inventory = task[t].pre.inventory

\* an add for a user that does not exist, of an ingredient that does, has
\* ended
C4_AddForMissingUser ==
    \E t \in Tasks :
       /\ Done(t) /\ task[t].op = "add_ingredient_into_inventory"
       /\ \E g \in task[t].pre.ingredients : PInt(g.id) = task[t].args.ingredient
       /\ ~ \E u \in task[t].pre.users : PInt(u.id) = task[t].args.user_id
       /\ task[t].out.kind = "raise"

\* the fields an update supplies: the keys it holds with a value
Supplied(updates) ==
    { k \in UpdateKeys : updates[k] # Absent /\ updates[k] # None }

\* the value a column holds once the value v is written to it: a date is
\* stored as its ISO text
StoredAs(k, v) == IF k = "expiration_date" THEN PStr(Val(v)) ELSE Val(v)

\* C5: an update (by id or by name) of an existing row that supplies some
\* of quantity, minimum_threshold and expiration_date and returns leaves
\* the supplied fields with the new values, the others as they were, and
\* updated_at strictly greater than it was
C5_UpdateSetsFieldsAndAdvancesStamp ==
    \A t \in Tasks :
       (Done(t) /\ task[t].op \in UpdateMethods /\ task[t].out.kind = "return") =>
          \E old \in HeldBy(task[t].pre, task[t].op, task[t].args) :
          \E new \in inventory :
             /\ new.id = old.id
             /\ new.user_id = old.user_id /\ new.ingredient_id = old.ingredient_id
             /\ \A k \in UpdateKeys :
                   new[k] = IF k \in Supplied(task[t].args.data)
                            THEN StoredAs(k, task[t].args.data[k])
                            ELSE old[k]
             /\ new.updated_at > old.updated_at

\* C6: an update (by id or by name) of an existing row with no field set
\* (no key, or None for every key) raises InventoryUpdateError, issues no
\* write and leaves the inventory, updated_at included, as it was
C6_UpdateWithoutFieldsRefused ==
    \A t \in Tasks :
       (/\ Done(t) /\ task[t].op \in UpdateMethods
        /\ \A k \in UpdateKeys : task[t].args.data[k] \in {Absent, None}
        /\ HeldBy(task[t].pre, task[t].op, task[t].args) # {})
       => /\ task[t].out = Raise("InventoryUpdateError")
          /\ ~task[t].wrote
          /\ inventory = task[t].pre.inventory

\* an update of an existing row with None for every key has ended
C6_UpdateAllNone ==
    \E t \in Tasks :
       /\ Done(t) /\ task[t].op \in UpdateMethods
       /\ \A k \in UpdateKeys : task[t].args.data[k] = None
       /\ HeldBy(task[t].pre, task[t].op, task[t].args) # {}
       /\ task[t].out.kind = "raise"

\* C7: a delete (by id or by name) for a user and an ingredient with no
\* inventory row raises InventoryDeletionError before a DELETE is issued and
\* leaves the inventory of every user as it was
C7_DeleteOfMissingRowRefused ==
    \A t \in Tasks :
       (/\ Done(t) /\ task[t].op \in DeleteMethods
        /\ HeldBy(task[t].pre, task[t].op, task[t].args) = {})
       => /\ task[t].out = Raise("InventoryDeletionError")
          /\ ~task[t].wrote
          /\ inventory = task[t].pre.inventory

\* a delete for a pair with no row has ended while the inventory holds rows
C7_DeleteOfMissingRow ==
    \E t \in Tasks :
       /\ Done(t) /\ task[t].op \in DeleteMethods
       /\ HeldBy(task[t].pre, task[t].op, task[t].args) = {}
       /\ task[t].pre.inventory # {}
       /\ task[t].out.kind = "raise"

\* the two info calls of a user about a catalog row
InfoCalls(user_id, g) ==
    { Invocation("get_ingredient_info_by_name", Args(PStr(g.name), user_id, None)),
      Invocation("get_ingredient_info_by_id", Args(PInt(g.id), user_id, None)) }

\* the date a stored expiration_date stands for
AsDate(v) == IF v = None THEN None ELSE PDate(Val(v))

\* the Ingredient record of an inventory row r and its catalog row g
InfoOf(r, g) ==
    PObject("Ingredient",
            [name |-> g.name, category |-> g.category, unit_type |-> g.unit_type,
             quantity |-> PReal(r.quantity),
             minimum_threshold |-> PReal(r.minimum_threshold),
             expiration_date |-> AsDate(r.expiration_date)])

\* C8: once add_ingredient_into_inventory(user, ingredient, {q, t, d}) has
\* returned, and before any other write, get_ingredient_info_by_name and
\* get_ingredient_info_by_id of the user return a record with exactly q, t
\* and d and the name, category and unit_type of the catalog row; and every
\* info call that finds a row returns what that row and its catalog row hold
C8_InfoReturnsWhatWasAdded ==
    \A t \in Tasks : Done(t) =>
       /\ (task[t].op = "add_ingredient_into_inventory" /\ task[t].out.kind = "return") =>
             \A g \in { x \in ingredients : PInt(x.id) = task[t].args.ingredient } :
             \A c \in InfoCalls(task[t].args.user_id, g) :
                Run(World, Begin(World, c)).f.out =
                   Return(PObject("Ingredient",
                       [name |-> g.name, category |-> g.category,
                        unit_type |-> g.unit_type,
                        quantity |-> task[t].args.data.quantity,
                        minimum_threshold |-> task[t].args.data.minimum_threshold,
                        expiration_date |-> task[t].args.data.expiration_date]))
       /\ (/\ task[t].op \in {"get_ingredient_info_by_name", "get_ingredient_info_by_id"}
           /\ HeldBy(task[t].pre, task[t].op, task[t].args) # {}) =>
             \E r \in HeldBy(task[t].pre, task[t].op, task[t].args) :
             \E g \in task[t].pre.ingredients :
                g.id = r.ingredient_id /\ task[t].out = Return(InfoOf(r, g))

\* an info call has returned the record of a row that is as it was inserted,
\* expiration date included
C8_InfoOfFreshRow ==
    \E t \in Tasks :
       /\ Done(t) /\ task[t].op = "get_ingredient_info_by_name"
       /\ task[t].out.kind = "return" /\ task[t].out.value # None
       /\ Val(task[t].out.value).quantity = InventoryInsertion(1).quantity
       /\ Val(task[t].out.value).minimum_threshold = InventoryInsertion(1).minimum_threshold
       /\ Val(task[t].out.value).expiration_date = InventoryInsertion(1).expiration_date

QuantityMethods ==
    {"get_ingredient_quantity_by_name", "get_ingredient_quantity_by_id"}

\* C9: get_ingredient_quantity_by_name and get_ingredient_quantity_by_id
\* return 0.0 and do not raise when the user has no inventory row for the
\* ingredient (absent from the catalog, in the catalog only, or held by
\* other users only), and return the stored quantity of the row otherwise
C9_QuantityOrZero ==
    \A t \in Tasks :
       (Done(t) /\ task[t].op \in QuantityMethods) =>
          LET held == HeldBy(task[t].pre, task[t].op, task[t].args)
          IN IF held = {} THEN task[t].out = Return(PReal(0))
             ELSE \E r \in held : task[t].out = Return(PReal(r.quantity))

\* a quantity call by id has ended for a user without a row for an
\* ingredient another user holds with a quantity that is not zero
C9_QuantityHeldByOtherUser ==
    \E t \in Tasks :
       /\ Done(t) /\ task[t].op = "get_ingredient_quantity_by_id"
       /\ HeldBy(task[t].pre, task[t].op, task[t].args) = {}
       /\ \E r \in task[t].pre.inventory :
             PInt(r.ingredient_id) = task[t].args.ingredient /\ r.quantity # 0
       /\ task[t].out.kind = "return"

\* C10: a method called while no connect() has succeeded (never called, or
\* raised part-way) raises NotConnectedError and leaves every table as it
\* was
C10_UnconnectedCallRefused ==
    \A t \in Tasks :
       (Done(t) /\ ~connected) =>
          /\ task[t].out = Raise("NotConnectedError")
          /\ users = task[t].pre.users
          /\ ingredients = task[t].pre.ingredients
          /\ inventory = task[t].pre.inventory

UnitMethods ==
    {"get_ingredient_measurement_unit_by_name", "get_ingredient_measurement_unit_by_id"}

\* the catalog rows of a snapshot a catalog-level call names, by name or by id
CatalogRows(snapshot, op, a) ==
    IF ByName(op) THEN Named(snapshot.ingredients, a.ingredient)
    ELSE { g \in snapshot.ingredients : PInt(g.id) = a.ingredient }

\* C11: get_ingredient_measurement_unit_by_name and
\* get_ingredient_measurement_unit_by_id raise IngredientNotFoundError when
\* the catalog has no row with the name, respectively the id, and return the
\* unit_type of the catalog row otherwise, whatever the inventory holds
C11_UnitOrNotFound ==
    \A t \in Tasks :
       (Done(t) /\ task[t].op \in UnitMethods) =>
          LET rows == CatalogRows(task[t].pre, task[t].op, task[t].args)
          IN IF rows = {} THEN task[t].out = Raise("IngredientNotFoundError")
             ELSE \E g \in rows : task[t].out = Return(PStr(g.unit_type))

\* the two calls that ask whether a user holds the catalog row g
ExistsInInventoryCalls(user_id, g) ==
    { Invocation("ingredient_exists_in_inventory_by_name",
                 Args(PStr(g.name), user_id, None)),
      Invocation("ingredient_exists_in_inventory_by_id",
                 Args(PInt(g.id), user_id, None)) }

\* C12: when a catalog row is deleted, the same statement removes every
\* inventory row of every user that references it and no other inventory
\* row: right after it ingredient_exists_in_inventory_by_id and _by_name
\* return False for that ingredient for every user, and the inventory is
\* what it was less the rows that referenced the ingredient
C12_CatalogDeleteCascades ==
    \A t \in Tasks :
       (Done(t) /\ task[t].op = "DELETE FROM ingredients") =>
          \A g \in CatalogRows(task[t].pre, task[t].op, task[t].args) :
             /\ g \notin ingredients
             /\ inventory = { r \in task[t].pre.inventory : r.ingredient_id # g.id }
             /\ \A u \in UserArgs : \A c \in ExistsInInventoryCalls(u, g) :
                   Run(World, Begin(World, c)).f.out = Return(PBool(FALSE))

\* a catalog row two users held has been deleted while one of them held
\* another ingredient too
C12_DeletedWhileHeldByTwoUsers ==
    \E t \in Tasks :
       /\ Done(t) /\ task[t].op = "DELETE FROM ingredients"
       /\ \E g \in CatalogRows(task[t].pre, task[t].op, task[t].args) :
             /\ \A u \in UserArgs : Held(task[t].pre.inventory, u, PInt(g.id)) # {}
             /\ \E r \in task[t].pre.inventory : r.ingredient_id # g.id
       /\ inventory # {}

\* C13: when add_ingredient_into_inventory raises IngredientInsertionError
\* (no generated id, or a read after the INSERT that finds no row), its
\* insert is rolled back: when the call has ended the inventory holds no row
\* for the user and the ingredient
C13_FailedAddIsRolledBack ==
    \A t \in Tasks :
       (/\ Done(t) /\ task[t].op = "add_ingredient_into_inventory"
        /\ task[t].out = Raise("IngredientInsertionError"))
       => Held(inventory, task[t].args.user_id, task[t].args.ingredient) = {}

\* C15: a call of add_ingredient_into_inventory that returns, run alone,
\* returns an IngredientFullResponse with the quantity, minimum_threshold and
\* expiration_date the caller passed, the name, category and unit_type of
\* the catalog row with the ingredient_id, and the id, created_at and
\* updated_at of the row the inventory now holds for the user and the
\* ingredient; that row stores the values the caller passed
C15_AddReturnsComposedResponse ==
    \A t \in Tasks :
       (/\ Done(t) /\ task[t].op = "add_ingredient_into_inventory"
        /\ task[t].out.kind = "return") =>
          LET a == task[t].args
          IN \E r \in Held(inventory, a.user_id, a.ingredient) :
             \E g \in ingredients :
                /\ g.id = r.ingredient_id
                /\ PReal(r.quantity) = a.data.quantity
                /\ PReal(r.minimum_threshold) = a.data.minimum_threshold
                /\ AsDate(r.expiration_date) = a.data.expiration_date
                /\ task[t].out.value =
                      PObject("IngredientFullResponse",
                          [ingredient_id |-> Val(a.ingredient),
                           inventory_id |-> r.id,
                           user_id |-> Val(a.user_id),
                           created_at |-> PDatetime(r.created_at),
                           updated_at |-> PDatetime(r.updated_at),
                           name |-> g.name, category |-> g.category,
                           unit_type |-> g.unit_type,
                           quantity |-> a.data.quantity,
                           minimum_threshold |-> a.data.minimum_threshold,
                           expiration_date |-> a.data.expiration_date])

\* an add of the second catalog row has returned, after the clock has moved
\* and while the inventory holds another row
C15_AddOfSecondIngredientReturned ==
    \E t \in Tasks :
       /\ Done(t) /\ task[t].op = "add_ingredient_into_inventory"
       /\ task[t].out.kind = "return"
       /\ task[t].args.ingredient = PInt(2)
       /\ task[t].pre.inventory # {}
       /\ Val(Val(task[t].out.value).created_at) > 0

\* what a call returns or raises when it runs alone on the stored state
Alone(op, args) ==
    Run(World, Begin(World, Invocation(op, args))).f.out

\* Python's == on two outcomes: the same exception, or values that are
\* equal, where 0 == 0.0 and True == 1
IsNumber(v) == Tag(v) \in {"int", "real", "bool"}
NumberOf(v) == IF Tag(v) = "bool" THEN (IF Val(v) THEN 1 ELSE 0) ELSE Val(v)
SameOutcome(x, y) ==
    \/ x = y
    \/ /\ x.kind = "return" /\ y.kind = "return"
       /\ IsNumber(x.value) /\ IsNumber(y.value)
       /\ NumberOf(x.value) = NumberOf(y.value)

\* C16: when the read-only methods of two tasks are in flight together on
\* the one manager and nothing is written meanwhile, each call ends as it
\* would end run alone on the same tables
C16_ConcurrentLookupsAgree ==
    \A t \in Tasks :
       (/\ Done(t) /\ task[t].op \in LookupMethods
        /\ task[t].pre = Snapshot(World))
       => SameOutcome(task[t].out, Alone(task[t].op, task[t].args))

\* C17: a delete (by id or by name) that has passed its existence check and
\* issued its DELETE raises nothing: it returns False when the DELETE
\* removed no row (the row went between the check and the DELETE) and True
\* when the DELETE removed the row
C17_DeleteReportsWhatItRemoved ==
    \A t \in Tasks :
       (Done(t) /\ task[t].op \in DeleteMethods /\ task[t].affected >= 0)
       => task[t].out = Return(PBool(task[t].affected > 0))

\* C19: an update (by id or by name) that has passed its existence check
\* and then finds the row gone, at its UPDATE (no row changed) or at its
\* read-back (no row read), raises InventoryUpdateError and returns no
\* response
C19_UpdateOfRemovedRowFails ==
    \A t \in Tasks :
       (/\ Done(t) /\ task[t].op \in UpdateMethods
        /\ task[t].affected = 0 \/ task[t].found = 0)
       => task[t].out = Raise("InventoryUpdateError")

\* C18: an update (by id or by name) for a user and an ingredient with no
\* inventory row raises InventoryUpdateError whatever the mapping holds; it
\* fails at the existence check, before an UPDATE is issued, so no row is
\* created and the rows of every user stay as they were
C18_UpdateOfMissingRowRefused ==
    \A t \in Tasks :
       (/\ Done(t) /\ task[t].op \in UpdateMethods
        /\ HeldBy(task[t].pre, task[t].op, task[t].args) = {})
       => /\ task[t].out = Raise("InventoryUpdateError")
          /\ ~task[t].wrote
          /\ inventory = task[t].pre.inventory

\* an update by name that supplies fields has ended for a user without the
\* row while another user holds the ingredient
C18_UpdateOfRowHeldByOtherUser ==
    \E t \in Tasks :
       /\ Done(t) /\ task[t].op = "update_ingredient_in_inventory_by_name"
       /\ HeldBy(task[t].pre, task[t].op, task[t].args) = {}
       /\ UpdateFields(task[t].args.data) # {}
       /\ \E g \in Named(task[t].pre.ingredients, task[t].args.ingredient) :
             \E r \in task[t].pre.inventory : PInt(r.ingredient_id) = PInt(g.id)
       /\ task[t].out.kind = "raise"

C21_CreatedAtFixed ==
    /\ [](\A t \in Tasks :
            (Done(t) /\ task[t].out.kind = "return") =>
               /\ task[t].op \in UpdateMethods =>
                    \E old \in HeldBy(task[t].pre, task[t].op, task[t].args) :
                       /\ Val(task[t].out.value).inventory_id = old.id
                       /\ Val(task[t].out.value).created_at = PDatetime(old.created_at)
               /\ task[t].op = "add_ingredient_into_inventory" =>
                    \E r \in inventory :
                       /\ Val(task[t].out.value).inventory_id = r.id
                       /\ Val(task[t].out.value).created_at = PDatetime(r.created_at))
    /\ [][\A old \in inventory : \A new \in inventory' :
             new.id = old.id => new.created_at = old.created_at]_vars

\* an update has returned in a later second than the one the row was added
\* in: its response carries an updated_at after its created_at
C21_UpdateInLaterSecond ==
    \E t \in Tasks :
       /\ Done(t) /\ task[t].op \in UpdateMethods /\ task[t].out.kind = "return"
       /\ Val(Val(task[t].out.value).updated_at) > Val(Val(task[t].out.value).created_at)

\* C22: a delete (by id or by name) that returns True for user U and
\* ingredient I has removed U's row for I and nothing else: the rows of
\* other users for I, the rows of U for other ingredients, the catalog and
\* the users are as the call found them
C22_DeleteRemovesOnlyTheRow ==
    \A t \in Tasks :
       (/\ Done(t) /\ task[t].op \in DeleteMethods
        /\ task[t].out = Return(PBool(TRUE))) =>
          LET held == HeldBy(task[t].pre, task[t].op, task[t].args)
          IN /\ Cardinality(held) = 1
             /\ inventory = task[t].pre.inventory \ held
             /\ ingredients = task[t].pre.ingredients
             /\ users = task[t].pre.users

\* a delete has returned True for a user while another user held the same
\* ingredient
C22_DeleteBesideOtherUsersRow ==
    \E t \in Tasks :
       /\ Done(t) /\ task[t].op \in DeleteMethods
       /\ task[t].out = Return(PBool(TRUE))
       /\ \E mine \in HeldBy(task[t].pre, task[t].op, task[t].args) :
          \E other \in task[t].pre.inventory :
             other.ingredient_id = mine.ingredient_id /\ other.user_id # mine.user_id

\* C23: no call of the manager removes or changes a catalog row: in every
\* step the catalog rows of before are all still there, with the same id,
\* name, category and unit_type, and no id is held by two rows
C23_CatalogOnlyGrows ==
    /\ [][ingredients \subseteq ingredients']_vars
    /\ [](\A g, h \in ingredients : g.id = h.id => g = h)

\* a delete has removed an inventory row while the catalog holds two rows
C23_DeleteWithTwoCatalogRows ==
    \E t \in Tasks :
       /\ Done(t) /\ task[t].op \in DeleteMethods
       /\ task[t].out = Return(PBool(TRUE))
       /\ Cardinality(ingredients) = 2

FullOf(r, g) ==
    PObject("IngredientFullResponse",
            [ingredient_id |-> g.id, inventory_id |-> r.id, user_id |-> r.user_id,
             created_at |-> PDatetime(r.created_at),
             updated_at |-> PDatetime(r.updated_at),
             name |-> g.name, category |-> g.category, unit_type |-> g.unit_type,
             quantity |-> PReal(r.quantity),
             minimum_threshold |-> PReal(r.minimum_threshold),
             expiration_date |-> AsDate(r.expiration_date)])

C26_IdByNameOrNotFound ==
    \A t \in Tasks :
       (Done(t) /\ task[t].op = "get_ingredient_id_by_name") =>
          LET named == Named(task[t].pre.ingredients, task[t].args.ingredient)
          IN /\ named = {} => task[t].out = Raise("IngredientNotFoundError")
             /\ named # {} => \E g \in named : task[t].out = Return(PInt(g.id))
             /\ task[t].out.kind = "return" => Truthy(task[t].out.value)

\* the id of the second of two catalog rows has been returned for its name
C26_IdOfSecondRow ==
    \E t \in Tasks :
       /\ Done(t) /\ task[t].op = "get_ingredient_id_by_name"
       /\ task[t].out = Return(PInt(2))
       /\ Cardinality(task[t].pre.ingredients) = 2

\* C30: an update (by id or by name) treats a key whose value is None as
\* not supplied: when it returns, every such key of the row holds what it
\* held before (a stored expiration_date is not cleared) and the keys
\* supplied with a value hold that value
C30_NoneLeavesFieldUnchanged ==
    \A t \in Tasks :
       (Done(t) /\ task[t].op \in UpdateMethods /\ task[t].out.kind = "return") =>
          \E old \in HeldBy(task[t].pre, task[t].op, task[t].args) :
          \E new \in inventory :
             /\ new.id = old.id
             /\ \A k \in UpdateKeys :
                   /\ task[t].args.data[k] = None => new[k] = old[k]
                   /\ k \in Supplied(task[t].args.data) =>
                         new[k] = StoredAs(k, task[t].args.data[k])

\* an update with a quantity and None for the expiration date has returned
\* for a row that holds an expiration date
C30_QuantitySetDateNone ==
    \E t \in Tasks :
       /\ Done(t) /\ task[t].op \in UpdateMethods /\ task[t].out.kind = "return"
       /\ task[t].args.data.quantity # None /\ task[t].args.data.quantity # Absent
       /\ task[t].args.data.expiration_date = None
       /\ \E old \in HeldBy(task[t].pre, task[t].op, task[t].args) :
             old.expiration_date # None

\* the inventory rows of `rows` the user holds for a catalog row named `name`
HeldByName(catalog, rows, user_id, name) ==
    UNION { Held(rows, user_id, PInt(g.id)) : g \in Named(catalog, name) }

\* C27: POST /v1/inventory answers 409 and changes no table when the user
\* already holds the named ingredient; otherwise it answers 201, inserts a
\* catalog row for the name only if there was none and inserts the inventory
\* row, so that the catalog holds exactly one row with the name and the user
\* exactly one inventory row referencing it, all other rows being untouched
C27_PostAddsOnceOrConflicts ==
    \A t \in Tasks :
       (Done(t) /\ task[t].op = "POST /v1/inventory") =>
          LET a == task[t].args
              pre == task[t].pre
              status == StatusCode(task[t].op, task[t].out)
          IN IF HeldByName(pre.ingredients, pre.inventory, a.user_id, a.ingredient) # {}
             THEN /\ status = 409
                  /\ users = pre.users /\ ingredients = pre.ingredients
                  /\ inventory = pre.inventory
             ELSE /\ status = 201
                  /\ users = pre.users
                  /\ pre.ingredients \subseteq ingredients
                  /\ Cardinality(Named(ingredients, a.ingredient)) = 1
                  /\ ingredients \ pre.ingredients \subseteq
                        (IF Named(pre.ingredients, a.ingredient) = {}
                         THEN Named(ingredients, a.ingredient) ELSE {})
                  /\ pre.inventory \subseteq inventory
                  /\ inventory \ pre.inventory =
                        HeldByName(ingredients, inventory, a.user_id, a.ingredient)
                  /\ Cardinality(inventory \ pre.inventory) = 1

\* a POST has been answered 201 for a name the catalog already held (the row
\* had been added and deleted before)
C27_PostForKnownName ==
    \E t \in Tasks :
       /\ Done(t) /\ task[t].op = "POST /v1/inventory"
       /\ StatusCode(task[t].op, task[t].out) = 201
       /\ Named(task[t].pre.ingredients, task[t].args.ingredient) # {}

\* C28: DELETE /v1/inventory/by_id/{ingredient_id} answers 404 whenever the
\* caller holds no inventory row for the ingredient, and removes no row then
C28_DeleteOfMissingRowAnswers404 ==
    \A t \in Tasks :
       (/\ Done(t) /\ task[t].op = "DELETE /v1/inventory/by_id"
        /\ Held(task[t].pre.inventory, task[t].args.user_id, task[t].args.ingredient) = {})
       => /\ StatusCode(task[t].op, task[t].out) = 404
          /\ inventory = task[t].pre.inventory

\* C29: PATCH /v1/inventory/by_id/{ingredient_id} answers 404 when the
\* caller holds no inventory row for the ingredient, 400 when the manager
\* raises InventoryUpdateError (no field set), and 500 only for other failures
C29_PatchAnswers404Or400 ==
    \A t \in Tasks :
       (Done(t) /\ task[t].op = "PATCH /v1/inventory/by_id") =>
          LET a == task[t].args
              status == StatusCode(task[t].op, task[t].out)
          IN /\ Held(task[t].pre.inventory, a.user_id, a.ingredient) = {} => status = 404
             /\ (/\ Held(task[t].pre.inventory, a.user_id, a.ingredient) # {}
                 /\ Supplied(a.data) = {}) => status = 400
             /\ (/\ Held(task[t].pre.inventory, a.user_id, a.ingredient) # {}
                 /\ Supplied(a.data) # {}) => status = 200

\* C31: the inventory_id a successful add_ingredient_into_inventory returns
\* is the rowid of the row its own INSERT stored, also when other calls of
\* the manager run between its INSERT, its commit and its read-back
C31_AddReturnsItsOwnRowId ==
    \A t \in Tasks :
       (/\ Done(t) /\ task[t].op = "add_ingredient_into_inventory"
        /\ task[t].out.kind = "return")
       => /\ task[t].stored > 0
          /\ task[t].out.value[2].inventory_id = task[t].stored

\* the outcome and the world after the call c, run alone from this state
Outcome(c) == Run(World, Begin(World, c))

\* the method pairs that address an ingredient by name and by id
VariantMethods ==
    { <<"get_ingredient_quantity_by_name", "get_ingredient_quantity_by_id">>,
      <<"ingredient_exists_in_inventory_by_name", "ingredient_exists_in_inventory_by_id">>,
      <<"get_ingredient_info_by_name", "get_ingredient_info_by_id">>,
      <<"delete_ingredient_from_inventory_by_name",
        "delete_ingredient_from_inventory_by_id">>,
      <<"update_ingredient_in_inventory_by_name",
        "update_ingredient_in_inventory_by_id">> }

\* the calls of both variants for the catalog row g and the user u; an
\* update gets the same mapping in both
VariantPairs(g, u) ==
    { <<Invocation(m[1], Args(PStr(g.name), PInt(u), None)),
        Invocation(m[2], Args(PInt(g.id), PInt(u), None))>> :
        m \in { x \in VariantMethods : x[1] \notin UpdateMethods } }
    \cup { <<Invocation(m[1], Args(PStr(g.name), PInt(u), d)),
             Invocation(m[2], Args(PInt(g.id), PInt(u), d))>> :
             m \in { x \in VariantMethods : x[1] \in UpdateMethods },
             d \in UpdateMappings }

\* C32: for a catalog row with id I and name N, in every reachable state the
\* by-name and the by-id variant of quantity, exists-in-inventory, info,
\* delete and update give every user the same outcome and leave the same
\* tables behind.  (Finish changes the caller's frame alone, so every state of
\* the manager is reached with the caller idle: the variants are compared
\* there.)
C32_VariantsAgree ==
    (\A t \in Tasks : task[t].pc = "idle") =>
       \A g \in ingredients : \A u \in UserIds : \A p \in VariantPairs(g, u) :
          LET n == Outcome(p[1])
              i == Outcome(p[2])
          IN /\ n.f.out = i.f.out
             /\ Snapshot(n.w) = Snapshot(i.w)

\* the caller is idle, the second catalog row is held by both users, and a
\* delete by its name would remove exactly the first user's row
C32_DeleteByNameBesideOtherUser ==
    \E g \in ingredients :
       /\ \A t \in Tasks : task[t].pc = "idle"
       /\ g.id = 2
       /\ Held(inventory, PInt(1), PInt(g.id)) # {}
       /\ Held(inventory, PInt(2), PInt(g.id)) # {}
       /\ Outcome(Invocation("delete_ingredient_from_inventory_by_name",
                             Args(PStr(g.name), PInt(1), None))).w.inventory
             = inventory \ Held(inventory, PInt(1), PInt(g.id))

\* the outcomes of the three reads of presence and of the quantity for the
\* ingredient i and the user u, each run alone from this state
Exists(i, u) ==
    Outcome(Invocation("ingredient_exists_in_inventory_by_id", Args(i, u, None))).f.out
InfoById(i, u) ==
    Outcome(Invocation("get_ingredient_info_by_id", Args(i, u, None))).f.out
AllInInventory(u) ==
    Outcome(Invocation("get_all_ingredients_in_inventory", Args(None, u, None))).f.out
QuantityById(i, u) ==
    Outcome(Invocation("get_ingredient_quantity_by_id", Args(i, u, None))).f.out

C34_KnownNameKeepsCatalogRow ==
    \A t \in Tasks :
       (Done(t) /\ task[t].op = "POST /v1/inventory") =>
          \A g \in Named(task[t].pre.ingredients, task[t].args.ingredient) :
             (g.category # task[t].args.data.category
              \/ g.unit_type # task[t].args.data.unit_type) =>
                /\ ingredients = task[t].pre.ingredients
                /\ task[t].out.kind = "return" =>
                      /\ task[t].out.value[2].category = g.category
                      /\ task[t].out.value[2].unit_type = g.unit_type

\* a POST has been answered 201 for a name the catalog held with another
\* category and unit_type than the request gave
C34_PostWithOtherCategory ==
    \E t \in Tasks :
       /\ Done(t) /\ task[t].op = "POST /v1/inventory"
       /\ StatusCode(task[t].op, task[t].out) = 201
       /\ \E g \in Named(task[t].pre.ingredients, task[t].args.ingredient) :
             /\ g.category # task[t].args.data.category
             /\ g.unit_type # task[t].args.data.unit_type

=============================================================================
